---------------------------- MODULE Spec2Model ----------------------------
(***************************************************************************)
(* WakeLink client core: the crypto engine (client/core/crypto.py), the    *)
(* packet codec (client/core/protocol/packet.py) and the transport         *)
(* handlers (client/core/handlers/tcp_handler.py, cloud_client.py).        *)
(*                                                                         *)
(* Representation.  A Python bytes object is a sequence of naturals in     *)
(* 0..255.  A Python str is a sequence of code points (the model only uses *)
(* code points below 128, so that str.encode("utf-8") is the same          *)
(* sequence; decoding is modelled by utf8_decode_ignore below).  A 32-bit  *)
(* word is a pair <<hi, lo>> of 16-bit halves, because the integers of the *)
(* model checker are 32-bit signed and the code's words are 32-bit         *)
(* unsigned (masked with 0xFFFFFFFF after every addition and rotation).    *)
(***************************************************************************)
EXTENDS Integers, Sequences, FiniteSets, TLC

-----------------------------------------------------------------------------
(* Bit operations on bytes and on 32-bit words *)

RECURSIVE BitXor(_, _, _)
BitXor(a, b, n) ==
  IF n = 0 THEN 0
  ELSE (((a % 2) + (b % 2)) % 2) + 2 * BitXor(a \div 2, b \div 2, n - 1)

RECURSIVE BitAnd(_, _, _)
BitAnd(a, b, n) ==
  IF n = 0 THEN 0
  ELSE ((a % 2) * (b % 2)) + 2 * BitAnd(a \div 2, b \div 2, n - 1)

Xor4 == [a \in 0..15 |-> [b \in 0..15 |-> BitXor(a, b, 4)]]
And4 == [a \in 0..15 |-> [b \in 0..15 |-> BitAnd(a, b, 4)]]

Xor8 == [a \in 0..255 |-> [b \in 0..255 |->
           Xor4[a % 16][b % 16] + 16 * Xor4[a \div 16][b \div 16]]]
And8 == [a \in 0..255 |-> [b \in 0..255 |->
           And4[a % 16][b % 16] + 16 * And4[a \div 16][b \div 16]]]

Xor16(a, b) == Xor8[a % 256][b % 256] + 256 * Xor8[a \div 256][b \div 256]
And16(a, b) == And8[a % 256][b % 256] + 256 * And8[a \div 256][b \div 256]

\* x ^ y, x & y, ~x & 0xFFFFFFFF on 32-bit words
Xor32(x, y) == << Xor16(x[1], y[1]), Xor16(x[2], y[2]) >>
And32(x, y) == << And16(x[1], y[1]), And16(x[2], y[2]) >>
Not32(x) == << 65535 - x[1], 65535 - x[2] >>

\* (x + y) & 0xFFFFFFFF
Add32(x, y) ==
  << (x[1] + y[1] + ((x[2] + y[2]) \div 65536)) % 65536, (x[2] + y[2]) % 65536 >>

Pow2(n) == 2 ^ n

\* x >> n on a 32-bit word, 0 <= n < 32
Shr32(x, n) ==
  IF n >= 16 THEN << 0, x[1] \div Pow2(n - 16) >>
  ELSE << x[1] \div Pow2(n),
          (x[2] \div Pow2(n)) + (x[1] % Pow2(n)) * Pow2(16 - n) >>

\* (x << n) & 0xFFFFFFFF on a 32-bit word, 0 <= n < 32
Shl32(x, n) ==
  IF n >= 16 THEN << (x[2] * Pow2(n - 16)) % 65536, 0 >>
  ELSE << ((x[1] * Pow2(n)) % 65536) + (x[2] \div Pow2(16 - n)),
          (x[2] * Pow2(n)) % 65536 >>

\* a | b for words with disjoint bits (the two halves of a rotation)
Or32Disjoint(x, y) == << x[1] + y[1], x[2] + y[2] >>

\* Crypto._rotr: ((x >> n) | (x << (32 - n))) & 0xFFFFFFFF
rotr(x, n) == Or32Disjoint(Shr32(x, n), Shl32(x, 32 - n))

\* ((d << n) | (d >> (32 - n))) & 0xFFFFFFFF, the rotation of the quarter round
rotl(x, n) == Or32Disjoint(Shl32(x, n), Shr32(x, 32 - n))

\* struct.unpack('>I', b[i..i+3]) and struct.pack('>I', x)
WordBE(b, i) == << b[i] * 256 + b[i + 1], b[i + 2] * 256 + b[i + 3] >>
BytesBE(x) == << x[1] \div 256, x[1] % 256, x[2] \div 256, x[2] % 256 >>

\* struct.unpack('<I', b[i..i+3]) and struct.pack('<I', x)
WordLE(b, i) == << b[i + 3] * 256 + b[i + 2], b[i + 1] * 256 + b[i] >>
BytesLE(x) == << x[2] % 256, x[2] \div 256, x[1] % 256, x[1] \div 256 >>

-----------------------------------------------------------------------------
(* Crypto._sha256 *)

K ==
  << <<17034, 12184>>, <<28983, 17553>>, <<46528, 64463>>, <<59829, 56229>>,
     <<14678, 49755>>, <<23025, 4593>>, <<37439, 33444>>, <<43804, 24277>>,
     <<55303, 43672>>, <<4739, 23297>>, <<9265, 34238>>, <<21772, 32195>>,
     <<29374, 23924>>, <<32990, 45566>>, <<39900, 1703>>, <<49563, 61812>>,
     <<58523, 27073>>, <<61374, 18310>>, <<4033, 40390>>, <<9228, 41420>>,
     <<11753, 11375>>, <<19060, 33962>>, <<23728, 43484>>, <<30457, 35034>>,
     <<38974, 20818>>, <<43057, 50797>>, <<45059, 10184>>, <<48985, 32711>>,
     <<50912, 3059>>, <<54695, 37191>>, <<1738, 25425>>, <<5161, 10599>>,
     <<10167, 2693>>, <<11803, 8504>>, <<19756, 28156>>, <<21304, 3347>>,
     <<25866, 29524>>, <<30314, 2747>>, <<33218, 51502>>, <<37490, 11397>>,
     <<41663, 59553>>, <<43034, 26187>>, <<49739, 35696>>, <<51052, 20899>>,
     <<53650, 59417>>, <<54937, 1572>>, <<62478, 13701>>, <<4202, 41072>>,
     <<6564, 49430>>, <<7735, 27656>>, <<10056, 30540>>, <<13488, 48309>>,
     <<14620, 3251>>, <<20184, 43594>>, <<23452, 51791>>, <<26670, 28659>>,
     <<29839, 33518>>, <<30885, 25455>>, <<33992, 30740>>, <<36039, 520>>,
     <<37054, 65530>>, <<42064, 27883>>, <<48889, 41975>>, <<50801, 30962>> >>

H0 ==
  << <<27145, 58983>>, <<47975, 44677>>, <<15470, 62322>>, <<42319, 62778>>,
     <<20750, 21119>>, <<39685, 26764>>, <<8067, 55723>>, <<23520, 52505>> >>

\* The number of zero bytes appended after 0x80: until len * 8 % 512 = 448
PadZeros(n) == (55 - (n % 64)) % 64

\* struct.pack('>Q', ml): the model's inputs are shorter than 2^27 bytes, so
\* the upper four bytes of the bit length are zero
PackQ(ml) ==
  << 0, 0, 0, 0, (ml \div 16777216) % 256, (ml \div 65536) % 256,
     (ml \div 256) % 256, ml % 256 >>

\* Pre-processing: data + 0x80 + zeros + 64-bit big-endian bit length
sha256_pad(data) ==
  data \o <<128>> \o [i \in 1..PadZeros(Len(data)) |-> 0] \o PackQ(Len(data) * 8)

\* An operator's argument is evaluated where the operator first uses it.  An
\* operator whose body is CASE x = x -> e evaluates x before e, so that e
\* works on a computed value, as a Python statement works on the values of
\* the statements before it.

\* A Python for loop over lo..hi that threads a value v through Step: the
\* iterations are evaluated as two halves, one after the other, the first
\* half's result being computed before the second half starts (the evaluation
\* depth stays logarithmic in hi - lo).
Mid(lo, hi) == (lo + hi) \div 2

RECURSIVE Loop(_, _, _, _)
Loop(Step(_, _), v, lo, hi) ==
  CASE v # v -> v
    [] lo > hi -> v
    [] lo = hi -> Step(v, lo)
    [] OTHER -> Loop(Step, Loop(Step, v, lo, Mid(lo, hi)), Mid(lo, hi) + 1, hi)

\* (ws[1] + ... + ws[n]) & 0xFFFFFFFF for a tuple of n < 65536 words
RECURSIVE SumHalves(_, _, _)
SumHalves(ws, i, n) == IF n = 0 THEN 0 ELSE ws[n][i] + SumHalves(ws, i, n - 1)

Sum32(ws) ==
  CASE ws = ws ->
    << (SumHalves(ws, 1, Len(ws)) + (SumHalves(ws, 2, Len(ws)) \div 65536)) % 65536,
       SumHalves(ws, 2, Len(ws)) % 65536 >>

\* s0 and s1 of the message schedule
\* The schedule's s0 with its first rotation by 8 instead of 7
schedule_s0_rotr8(x) == Xor32(Xor32(rotr(x, 8), rotr(x, 18)), Shr32(x, 3))
schedule_s0(x) == Xor32(Xor32(rotr(x, 7), rotr(x, 18)), Shr32(x, 3))
schedule_s1(x) == Xor32(Xor32(rotr(x, 17), rotr(x, 19)), Shr32(x, 10))

\* One step of the message schedule: w[j] from w[j-16], w[j-15], w[j-7], w[j-2]
\* (w is 1-based here: w[j] is the code's w[j-1])
sha256_schedule_step(w, j) ==
  Append(w, Sum32(<< w[j - 16], schedule_s0(w[j - 15]), w[j - 7],
                     schedule_s1(w[j - 2]) >>))

\* s1, ch, s0 and maj of the compression loop
round_s1(e) == Xor32(Xor32(rotr(e, 6), rotr(e, 11)), rotr(e, 25))
round_ch(e, f, g) == Xor32(And32(e, f), And32(Not32(e), g))
round_s0(a) == Xor32(Xor32(rotr(a, 2), rotr(a, 13)), rotr(a, 22))
round_maj(a, b, c) == Xor32(Xor32(And32(a, b), And32(a, c)), And32(b, c))

\* temp1 and temp2 on v = <<a, b, c, d, e, f, g, h_temp>>
round_temp1(v, k, wj) ==
  Sum32(<< v[8], round_s1(v[5]), round_ch(v[5], v[6], v[7]), k, wj >>)
round_temp2(v) == Sum32(<< round_s0(v[1]), round_maj(v[1], v[2], v[3]) >>)

\* h_temp = g, g = f, f = e, e = d + temp1, d = c, c = b, b = a, a = temp1 + temp2
round_shift(v, temp1, temp2) ==
  CASE << temp1, temp2 >> = << temp1, temp2 >> ->
    << Add32(temp1, temp2), v[1], v[2], v[3], Add32(v[4], temp1), v[5], v[6], v[7] >>

\* One round of the compression function
sha256_round(v, w, j) == round_shift(v, round_temp1(v, K[j], w[j]), round_temp2(v))

\* The sixteen big-endian words of the block at byte offset off
sha256_words(data, off) ==
  << WordBE(data, off + 1), WordBE(data, off + 5),
     WordBE(data, off + 9), WordBE(data, off + 13),
     WordBE(data, off + 17), WordBE(data, off + 21),
     WordBE(data, off + 25), WordBE(data, off + 29),
     WordBE(data, off + 33), WordBE(data, off + 37),
     WordBE(data, off + 41), WordBE(data, off + 45),
     WordBE(data, off + 49), WordBE(data, off + 53),
     WordBE(data, off + 57), WordBE(data, off + 61) >>

\* The message schedule of the block at byte offset off: w[0..63]
sha256_schedule(data, off) ==
  Loop(sha256_schedule_step, sha256_words(data, off), 17, 64)

\* The 64 rounds over the schedule w
sha256_compress(h, w) ==
  CASE w = w -> Loop(LAMBDA x, j : sha256_round(x, w, j), h, 1, 64)

\* h[i] = (h[i] + working variable) & 0xFFFFFFFF
sha256_add(h, v) ==
  CASE v = v ->
    << Add32(h[1], v[1]), Add32(h[2], v[2]), Add32(h[3], v[3]),
       Add32(h[4], v[4]), Add32(h[5], v[5]), Add32(h[6], v[6]),
       Add32(h[7], v[7]), Add32(h[8], v[8]) >>

\* One 64-byte block, at byte offset off of the padded data
sha256_block(h, data, off) ==
  sha256_add(h, sha256_compress(h, sha256_schedule(data, off)))

\* The blocks of the padded message in turn, from the initial hash values
sha256_blocks(padded) ==
  Loop(LAMBDA x, i : sha256_block(x, padded, i * 64), H0, 0,
       (Len(padded) \div 64) - 1)

\* b''.join(struct.pack('>I', x) for x in h)
sha256_digest(h) ==
  CASE h = h ->
    BytesBE(h[1]) \o BytesBE(h[2]) \o BytesBE(h[3]) \o BytesBE(h[4]) \o
    BytesBE(h[5]) \o BytesBE(h[6]) \o BytesBE(h[7]) \o BytesBE(h[8])

sha256_padded(padded) == CASE padded = padded -> sha256_digest(sha256_blocks(padded))

sha256(data) == CASE data = data -> sha256_padded(sha256_pad(data))

-----------------------------------------------------------------------------
(* ChaCha20: Crypto._chacha20_quarter_round, _chacha20_block, _chacha20_encrypt *)

constants ==
  << <<24944, 30821>>, <<13088, 25710>>, <<31074, 11570>>, <<27424, 25972>> >>

QuarterAWith(a1, s, n) == << a1, s[2], s[3], rotl(Xor32(s[4], a1), n) >>
QuarterCWith(c1, s, n) == << s[1], rotl(Xor32(s[2], c1), n), c1, s[4] >>

\* a += b; d ^= a; d <<<= n, on s = <<a, b, c, d>>
QuarterA(s, n) == CASE s = s -> QuarterAWith(Add32(s[1], s[2]), s, n)

\* c += d; b ^= c; b <<<= n
QuarterC(s, n) == CASE s = s -> QuarterCWith(Add32(s[3], s[4]), s, n)

\* The quarter round on words a, b, c, d; returns <<a, b, c, d>>
chacha20_quarter_round(a, b, c, d) ==
  QuarterC(QuarterA(QuarterC(QuarterA(<< a, b, c, d >>, 16), 12), 8), 7)

PutAt(st, i, j, k, l, q) ==
  CASE q = q ->
    [st EXCEPT ![i + 1] = q[1], ![j + 1] = q[2], ![k + 1] = q[3], ![l + 1] = q[4]]

\* working_state[i], [j], [k], [l] = quarter_round(those four); 0-based i..l
QuarterRoundAt(st, i, j, k, l) ==
  PutAt(st, i, j, k, l,
        chacha20_quarter_round(st[i + 1], st[j + 1], st[k + 1], st[l + 1]))

\* The places of the four column rounds and the four diagonal rounds
RoundPlaces ==
  << << 0, 4, 8, 12 >>, << 1, 5, 9, 13 >>, << 2, 6, 10, 14 >>, << 3, 7, 11, 15 >>,
     << 0, 5, 10, 15 >>, << 1, 6, 11, 12 >>, << 2, 7, 8, 13 >>, << 3, 4, 9, 14 >> >>

\* One double round: the four column rounds, then the four diagonal rounds
chacha20_double_round(st, n) ==
  Loop(LAMBDA s, i : QuarterRoundAt(s, RoundPlaces[i][1], RoundPlaces[i][2],
                                    RoundPlaces[i][3], RoundPlaces[i][4]),
       st, 1, 8)

\* constants, key, counter, nonce as sixteen words; counter < 65536 here
chacha20_state(key, nonce, counter) ==
  constants \o
  << WordLE(key, 1), WordLE(key, 5), WordLE(key, 9),
     WordLE(key, 13), WordLE(key, 17), WordLE(key, 21),
     WordLE(key, 25), WordLE(key, 29) >> \o
  << << 0, counter >> >> \o
  << WordLE(nonce, 1), WordLE(nonce, 5), WordLE(nonce, 9) >>

\* struct.pack('<I', (working_state[i] + state[i]) & 0xFFFFFFFF), joined
chacha20_output(state, working_state) ==
  CASE working_state = working_state ->
    Loop(LAMBDA out, i : out \o BytesLE(Add32(working_state[i], state[i])),
         <<>>, 1, 16)

\* Ten double rounds on a copy of the state, then the addition
chacha20_rounds(state) ==
  CASE state = state ->
    chacha20_output(state, Loop(chacha20_double_round, state, 1, 10))

\* The 64-byte keystream block of (key, nonce, counter)
chacha20_block(key, nonce, counter) ==
  chacha20_rounds(chacha20_state(key, nonce, counter))

\* The keystream with the block counter starting at 1
chacha20_keystream_from_one(key, nonce, n) ==
  Loop(LAMBDA ks, counter : ks \o chacha20_block(key, nonce, counter),
       <<>>, 1, n)

\* The keystream of blocks 0 .. n-1
chacha20_keystream(key, nonce, n) ==
  Loop(LAMBDA ks, counter : ks \o chacha20_block(key, nonce, counter),
       <<>>, 0, n - 1)

\* ciphertext[i + j] = plaintext[i + j] ^ key_stream[j]
XorBytes(plaintext, key_stream) ==
  CASE key_stream = key_stream ->
    [i \in 1..Len(plaintext) |-> Xor8[plaintext[i]][key_stream[i]]]

\* Crypto._chacha20_encrypt, counter from 0
chacha20_encrypt(key, nonce, plaintext) ==
  CASE plaintext = plaintext ->
    XorBytes(plaintext,
             chacha20_keystream(key, nonce, (Len(plaintext) + 63) \div 64))

-----------------------------------------------------------------------------
(* HMAC: Crypto._hmac_sha256 *)

\* key.ljust(64, b'\x00')
hmac_block(key) == key \o [i \in 1..(64 - Len(key)) |-> 0]

\* bytes(x ^ c for x in key)
hmac_pad(k2, c) == [i \in 1..64 |-> Xor8[k2[i]][c]]

hmac_hash(k2, data) ==
  sha256(hmac_pad(k2, 92) \o sha256(hmac_pad(k2, 54) \o data))

hmac_sha256(key, data) ==
  hmac_hash(hmac_block(IF Len(key) > 64 THEN sha256(key) ELSE key), data)

-----------------------------------------------------------------------------
(* str.encode("utf-8"), bytes.decode("utf-8", errors="ignore"), bytes.hex(),
   bytes.fromhex() *)

\* One code point (a Unicode scalar value: no surrogate) as UTF-8 bytes
utf8_encode_char(cp) ==
  IF cp < 128 THEN << cp >>
  ELSE IF cp < 2048 THEN << 192 + (cp \div 64), 128 + (cp % 64) >>
  ELSE IF cp < 65536 THEN
    << 224 + (cp \div 4096), 128 + ((cp \div 64) % 64), 128 + (cp % 64) >>
  ELSE << 240 + (cp \div 262144), 128 + ((cp \div 4096) % 64),
          128 + ((cp \div 64) % 64), 128 + (cp % 64) >>

\* str.encode("utf-8")
utf8_encode(str) ==
  Loop(LAMBDA acc, i : acc \o utf8_encode_char(str[i]), <<>>, 1, Len(str))

IsCont(b, i) == i <= Len(b) /\ b[i] >= 128 /\ b[i] <= 191
InRange(b, i, lo, hi) == i <= Len(b) /\ b[i] >= lo /\ b[i] <= hi

\* The length of the well-formed UTF-8 sequence that starts at byte i of b, or
\* 0 when none does (an invalid start byte, an invalid or missing continuation
\* byte, an overlong form, a surrogate, a code point above 0x10FFFF)
utf8_seq_len(b, i) ==
  LET b0 == b[i]
  IN  IF b0 < 128 THEN 1
      ELSE IF b0 >= 194 /\ b0 <= 223 THEN (IF IsCont(b, i + 1) THEN 2 ELSE 0)
      ELSE IF b0 = 224 THEN
        (IF InRange(b, i + 1, 160, 191) /\ IsCont(b, i + 2) THEN 3 ELSE 0)
      ELSE IF b0 = 237 THEN
        (IF InRange(b, i + 1, 128, 159) /\ IsCont(b, i + 2) THEN 3 ELSE 0)
      ELSE IF b0 >= 225 /\ b0 <= 239 THEN
        (IF IsCont(b, i + 1) /\ IsCont(b, i + 2) THEN 3 ELSE 0)
      ELSE IF b0 = 240 THEN
        (IF InRange(b, i + 1, 144, 191) /\ IsCont(b, i + 2) /\ IsCont(b, i + 3)
         THEN 4 ELSE 0)
      ELSE IF b0 = 244 THEN
        (IF InRange(b, i + 1, 128, 143) /\ IsCont(b, i + 2) /\ IsCont(b, i + 3)
         THEN 4 ELSE 0)
      ELSE IF b0 >= 241 /\ b0 <= 243 THEN
        (IF IsCont(b, i + 1) /\ IsCont(b, i + 2) /\ IsCont(b, i + 3)
         THEN 4 ELSE 0)
      ELSE 0

\* The code point of the well-formed sequence of n bytes at byte i of b
utf8_code_point(b, i, n) ==
  IF n = 1 THEN b[i]
  ELSE IF n = 2 THEN (b[i] - 192) * 64 + (b[i + 1] - 128)
  ELSE IF n = 3 THEN
    (b[i] - 224) * 4096 + (b[i + 1] - 128) * 64 + (b[i + 2] - 128)
  ELSE (b[i] - 240) * 262144 + (b[i + 1] - 128) * 4096 +
       (b[i + 2] - 128) * 64 + (b[i + 3] - 128)

\* bytes.decode("utf-8", errors="ignore"): the decoder emits the code point of
\* every well-formed sequence and drops every other byte.  A sequence starts
\* at a start byte and its other bytes are continuation bytes, and the bytes
\* the decoder drops at an error are one start byte and the continuation bytes
\* it accepted after it, so the decoder is at every start byte of the input
\* when it begins a character: the output is the code points of the
\* well-formed sequences of the input, in order.
utf8_decode_at(b, starts) ==
  [k \in 1..Len(starts) |->
     utf8_code_point(b, starts[k], utf8_seq_len(b, starts[k]))]

utf8_decode_ignore(b) ==
  utf8_decode_at(b, SelectSeq([i \in 1..Len(b) |-> i],
                              LAMBDA i : utf8_seq_len(b, i) > 0))

\* "0123456789abcdef"
HexDigits == << 48, 49, 50, 51, 52, 53, 54, 55, 56, 57, 97, 98, 99, 100, 101, 102 >>

\* bytes.hex(): two lowercase hex digits per byte
hex(b) ==
  CASE b = b ->
    [i \in 1..(2 * Len(b)) |->
       IF i % 2 = 1 THEN HexDigits[(b[(i + 1) \div 2] \div 16) + 1]
       ELSE HexDigits[(b[i \div 2] % 16) + 1]]

\* The value of a hex digit of either case, -1 for any other character
HexVal(c) ==
  IF c >= 48 /\ c <= 57 THEN c - 48
  ELSE IF c >= 97 /\ c <= 102 THEN c - 87
  ELSE IF c >= 65 /\ c <= 70 THEN c - 55
  ELSE 0 - 1

\* ASCII whitespace, which bytes.fromhex skips between bytes
IsSpace(c) == c \in {32, 9, 10, 11, 12, 13}

\* bytes.fromhex(str): [ok |-> FALSE] stands for ValueError (a character that
\* is no hex digit, or a digit without its pair)
fromhex_at(str, at) ==
  IF /\ Len(at) % 2 = 0
     /\ \A k \in 1..Len(at) : HexVal(str[at[k]]) >= 0
     /\ \A k \in 1..(Len(at) \div 2) : at[2 * k] = at[2 * k - 1] + 1
  THEN [ok |-> TRUE,
        bytes |-> [k \in 1..(Len(at) \div 2) |->
                     HexVal(str[at[2 * k - 1]]) * 16 + HexVal(str[at[2 * k]])]]
  ELSE [ok |-> FALSE, bytes |-> <<>>]

fromhex(str) ==
  fromhex_at(str, SelectSeq([i \in 1..Len(str) |-> i], LAMBDA i : ~IsSpace(str[i])))

\* str.lower() on the characters A-Z (all other characters of the model's
\* strings are their own lowercase)
lower(str) ==
  [i \in 1..Len(str) |-> IF str[i] >= 65 /\ str[i] <= 90 THEN str[i] + 32
                          ELSE str[i]]

\* str.startswith(prefix)
startswith(str, prefix) ==
  Len(str) >= Len(prefix) /\ SubSeq(str, 1, Len(prefix)) = prefix

-----------------------------------------------------------------------------
(* Crypto: __init__, calculate_hmac, verify_hmac, create_secure_response,
   process_secure_packet.  The engine's fields are the variables chacha_key,
   hmac_key and request_counter below; the operators take the key they read. *)

\* Token must be at least this many characters (Crypto.__init__)
MinTokenLen == 32

\* plaintext.encode("utf-8")[:500] and length > 500
MaxPlaintext == 500

\* len(p) < 18: two length bytes and sixteen nonce bytes
MinPacket == 18

request_limit == 1000

\* "ERROR:TOO_SHORT"
ERROR_TOO_SHORT == << 69, 82, 82, 79, 82, 58, 84, 79, 79, 95, 83, 72, 79, 82, 84 >>

\* "ERROR:INVALID_SIZE"
ERROR_INVALID_SIZE == << 69, 82, 82, 79, 82, 58, 73, 78, 86, 65, 76, 73, 68, 95, 83, 73, 90, 69 >>

\* "ERROR:DECRYPT: "
ERROR_DECRYPT == << 69, 82, 82, 79, 82, 58, 68, 69, 67, 82, 89, 80, 84, 58, 32 >>

\* "ERROR:"
ERROR_PREFIX == << 69, 82, 82, 79, 82, 58 >>

\* Crypto.__init__: ValueError for a token under 32 characters, else the engine
\* with both keys set to the first 32 bytes of sha256(token)
\* Crypto.__init__ with the length check one character too low
Crypto_init_one_short(tok) ==
  IF Len(tok) < MinTokenLen - 1
  THEN [raised |-> "ValueError", chacha_key |-> <<>>, hmac_key |-> <<>>,
        request_counter |-> 0]
  ELSE [raised |-> "none", chacha_key |-> SubSeq(sha256(utf8_encode(tok)), 1, 32),
        hmac_key |-> SubSeq(sha256(utf8_encode(tok)), 1, 32), request_counter |-> 0]

\* Crypto.__init__ keeping a second key derived from the first half only
Engine_half_hmac_key(master_key) ==
  [raised |-> "none", chacha_key |-> master_key,
   hmac_key |-> SubSeq(master_key, 1, 16) \o SubSeq(master_key, 1, 16),
   request_counter |-> 0]

Engine(master_key) ==
  [raised |-> "none", chacha_key |-> master_key, hmac_key |-> master_key,
   request_counter |-> 0]

Crypto_init(tok) ==
  IF Len(tok) < MinTokenLen
  THEN [raised |-> "ValueError", chacha_key |-> <<>>, hmac_key |-> <<>>,
        request_counter |-> 0]
  ELSE Engine(SubSeq(sha256(utf8_encode(tok)), 1, 32))

\* Crypto.calculate_hmac
calculate_hmac(hk, str) == hex(hmac_sha256(hk, utf8_encode(str)))

\* verify_hmac without signature.lower()
verify_hmac_case_sensitive(hk, str, signature) == calculate_hmac(hk, str) = signature

\* Crypto.verify_hmac
verify_hmac(hk, str, signature) == calculate_hmac(hk, str) = lower(signature)

\* struct.pack(">H", n) and struct.unpack(">H", p[:2])
PackH(n) == << n \div 256, n % 256 >>
UnpackH(p) == p[1] * 256 + p[2]

Min(a, b) == IF a < b THEN a ELSE b

\* data that is never cut
Truncated_never(encoded) == encoded

\* data = plaintext.encode("utf-8")[:500]
Truncated(encoded) == SubSeq(encoded, 1, Min(Len(encoded), MaxPlaintext))

\* packet = struct.pack(">H", len(data)) + cipher + full_nonce, in hex
SecurePacket(ck, data, full_nonce) ==
  hex(PackH(Len(data)) \o chacha20_encrypt(ck, SubSeq(full_nonce, 1, 12), data) \o
      full_nonce)

\* Crypto.create_secure_response, with the 16 bytes of os.urandom as an
\* argument; the caller adds 1 to request_counter
create_secure_response(ck, plaintext, full_nonce) ==
  SecurePacket(ck, Truncated(utf8_encode(plaintext)), full_nonce)

\* process_secure_packet that reads the nonce from the last 12 bytes
DecryptPacket_last_twelve(ck, p) ==
  IF Len(p) < MinPacket THEN [ret |-> ERROR_TOO_SHORT, counted |-> FALSE]
  ELSE IF UnpackH(p) > MaxPlaintext \/ Len(p) < 2 + UnpackH(p) + 16
  THEN [ret |-> ERROR_INVALID_SIZE, counted |-> FALSE]
  ELSE [ret |-> utf8_decode_ignore(
                  chacha20_encrypt(ck, SubSeq(p, Len(p) - 11, Len(p)),
                                   SubSeq(p, 3, 2 + UnpackH(p)))),
        counted |-> TRUE]

\* process_secure_packet that accepts a packet one byte shorter than declared
DecryptPacket_one_less(ck, p) ==
  IF Len(p) < MinPacket THEN [ret |-> ERROR_TOO_SHORT, counted |-> FALSE]
  ELSE IF UnpackH(p) > MaxPlaintext \/ Len(p) < 2 + UnpackH(p) + 15
  THEN [ret |-> ERROR_INVALID_SIZE, counted |-> FALSE]
  ELSE [ret |-> utf8_decode_ignore(
                  chacha20_encrypt(ck, SubSeq(SubSeq(p, Len(p) - 15, Len(p)), 1, 12),
                                   SubSeq(p, 3, 2 + UnpackH(p)))),
        counted |-> TRUE]

\* The checks and the decryption of process_secure_packet on the bytes p:
\* cipher = p[2:2 + length], full_nonce = p[-16:], nonce12 = full_nonce[:12]
DecryptPacket(ck, p) ==
  IF Len(p) < MinPacket THEN [ret |-> ERROR_TOO_SHORT, counted |-> FALSE]
  ELSE IF UnpackH(p) > MaxPlaintext \/ Len(p) < 2 + UnpackH(p) + 16
  THEN [ret |-> ERROR_INVALID_SIZE, counted |-> FALSE]
  ELSE [ret |-> utf8_decode_ignore(
                  chacha20_encrypt(ck, SubSeq(SubSeq(p, Len(p) - 15, Len(p)), 1, 12),
                                   SubSeq(p, 3, 2 + UnpackH(p)))),
        counted |-> TRUE]

\* The try block of process_secure_packet on what bytes.fromhex gave
DecryptParsed(ck, parsed) ==
  IF ~parsed.ok THEN [ret |-> ERROR_DECRYPT, counted |-> FALSE]
  ELSE DecryptPacket(ck, parsed.bytes)

\* Crypto.process_secure_packet: ret is the returned string, counted tells
\* whether the call reached self.request_counter += 1.  The text of the
\* exception after "ERROR:DECRYPT: " is not modelled.
process_secure_packet(ck, hex_packet) == DecryptParsed(ck, fromhex(hex_packet))

-----------------------------------------------------------------------------
(* Python values that pass through json: a value is [t |-> tag, v |-> payload]
   with tag "str" (v: the code points), "int" (v: the integer), "bool"
   (v: TRUE or FALSE), "null" (v: 0), "list" (v: the sequence of values) or
   "dict" (v: the sequence of <<key, value>> pairs in insertion order, the
   keys being strings and distinct). *)

JStr(str) == [t |-> "str", v |-> str]
JInt(n) == [t |-> "int", v |-> n]
JBool(b) == [t |-> "bool", v |-> b]
JNull == [t |-> "null", v |-> <<>>]
JList(items) == [t |-> "list", v |-> items]
JDict(pairs) == [t |-> "dict", v |-> pairs]

IsStr(val) == val.t = "str"
IsDict(val) == val.t = "dict"

\* key in d, for a dict d
DictHas(d, key) == \E i \in 1..Len(d.v) : d.v[i][1] = key

\* d[key] for a key of d; d.get(key) is JNull for a missing key
DictGet(d, key) ==
  IF DictHas(d, key)
  THEN d.v[CHOOSE i \in 1..Len(d.v) : d.v[i][1] = key][2]
  ELSE JNull

\* d[key] = val: a present key keeps its place
DictSet(d, key, val) ==
  IF DictHas(d, key)
  THEN JDict([i \in 1..Len(d.v) |->
                IF d.v[i][1] = key THEN << key, val >> ELSE d.v[i]])
  ELSE JDict(Append(d.v, << key, val >>))

\* d.update(e) for dicts d and e
DictUpdate(d, e) ==
  Loop(LAMBDA acc, i : DictSet(acc, e.v[i][1], e.v[i][2]), d, 1, Len(e.v))

\* a == b for two JSON values, as Python compares them: values of two types
\* differ
SameJson(a, b) == a.t = b.t /\ a.v = b.v

\* Python truthiness, as in "if payload and signature" and "data or {}"
Truthy(val) ==
  IF val.t = "null" THEN FALSE
  ELSE IF val.t = "bool" THEN val.v
  ELSE IF val.t = "int" THEN val.v # 0
  ELSE Len(val.v) > 0

-----------------------------------------------------------------------------
(* json.dumps(obj, separators=(",", ":")) and json.dumps(obj) *)

\* The decimal digits of n >= 0
RECURSIVE Digits(_)
Digits(n) == IF n < 10 THEN << 48 + n >> ELSE Append(Digits(n \div 10), 48 + (n % 10))

IntText(n) == IF n < 0 THEN << 45 >> \o Digits(0 - n) ELSE Digits(n)

\* \uXXXX for a code point below 0x10000
EscapeU(cp) ==
  << 92, 117, HexDigits[(cp \div 4096) + 1], HexDigits[((cp \div 256) % 16) + 1],
     HexDigits[((cp \div 16) % 16) + 1], HexDigits[(cp % 16) + 1] >>

\* One character inside a JSON string, ensure_ascii=True
EscapeChar(cp) ==
  IF cp = 34 THEN << 92, 34 >>
  ELSE IF cp = 92 THEN << 92, 92 >>
  ELSE IF cp = 10 THEN << 92, 110 >>
  ELSE IF cp = 13 THEN << 92, 114 >>
  ELSE IF cp = 9 THEN << 92, 116 >>
  ELSE IF cp = 8 THEN << 92, 98 >>
  ELSE IF cp = 12 THEN << 92, 102 >>
  ELSE IF cp >= 32 /\ cp < 127 THEN << cp >>
  ELSE IF cp < 65536 THEN EscapeU(cp)
  ELSE EscapeU(55296 + ((cp - 65536) \div 1024)) \o
       EscapeU(56320 + ((cp - 65536) % 1024))

NeedsEscape(cp) == cp = 34 \/ cp = 92 \/ cp < 32 \/ cp >= 127

DumpsStr(str) ==
  << 34 >> \o
  (IF \E i \in 1..Len(str) : NeedsEscape(str[i])
   THEN Loop(LAMBDA acc, i : acc \o EscapeChar(str[i]), <<>>, 1, Len(str))
   ELSE str) \o
  << 34 >>

\* json.dumps with the given item and key separators
RECURSIVE DumpsWith(_, _, _)
DumpsWith(val, itemsep, keysep) ==
  IF val.t = "str" THEN DumpsStr(val.v)
  ELSE IF val.t = "int" THEN IntText(val.v)
  ELSE IF val.t = "bool" THEN (IF val.v THEN << 116, 114, 117, 101 >>
                               ELSE << 102, 97, 108, 115, 101 >>)
  ELSE IF val.t = "null" THEN << 110, 117, 108, 108 >>
  ELSE IF val.t = "list" THEN
    << 91 >> \o
    Loop(LAMBDA acc, i : acc \o (IF i > 1 THEN itemsep ELSE <<>>) \o
                         DumpsWith(val.v[i], itemsep, keysep),
         <<>>, 1, Len(val.v)) \o
    << 93 >>
  ELSE
    << 123 >> \o
    Loop(LAMBDA acc, i : acc \o (IF i > 1 THEN itemsep ELSE <<>>) \o
                         DumpsStr(val.v[i][1]) \o keysep \o
                         DumpsWith(val.v[i][2], itemsep, keysep),
         <<>>, 1, Len(val.v)) \o
    << 125 >>

\* json.dumps(obj, separators=(",", ":"))
dumps_compact(val) == DumpsWith(val, << 44 >>, << 58 >>)

\* json.dumps(obj): separators ", " and ": "
dumps(val) == DumpsWith(val, << 44, 32 >>, << 58, 32 >>)

-----------------------------------------------------------------------------
(* json.loads(text).  The result is [ok, val]: ok is FALSE where Python raises
   json.JSONDecodeError.  Numbers are the integers; a number with a fraction
   or an exponent, NaN and Infinity are not among the texts the model feeds
   to the parser and are refused. *)

At(str, i) == IF i >= 1 /\ i <= Len(str) THEN str[i] ELSE 0 - 1

SetMin(S) == CHOOSE m \in S : \A k \in S : m <= k
SetMax(S) == CHOOSE m \in S : \A k \in S : m >= k

IsWs(c) == c = 32 \/ c = 9 \/ c = 10 \/ c = 13
IsDigit(c) == c >= 48 /\ c <= 57
IsHexDigit(c) == IsDigit(c) \/ (c >= 97 /\ c <= 102) \/ (c >= 65 /\ c <= 70)

\* The first index from i on that holds no whitespace, Len + 1 if none
SkipWs(str, i) ==
  IF ~IsWs(At(str, i)) THEN (IF i > Len(str) THEN Len(str) + 1 ELSE i)
  ELSE LET rest == {j \in i..Len(str) : ~IsWs(str[j])}
       IN  IF rest = {} THEN Len(str) + 1 ELSE SetMin(rest)

\* The number of backslashes that immediately precede index i
BsRun(str, i) ==
  IF At(str, i - 1) # 92 THEN 0
  ELSE LET other == {j \in 1..(i - 1) : str[j] # 92}
       IN  IF other = {} THEN i - 1 ELSE i - 1 - SetMax(other)

ParseFail == [ok |-> FALSE, val |-> JNull, next |-> 0]

Hex4(str, i) ==
  (HexVal(str[i]) * 4096) + (HexVal(str[i + 1]) * 256) +
  (HexVal(str[i + 2]) * 16) + HexVal(str[i + 3])

IsHex4(str, i) == \A j \in i..(i + 3) : IsHexDigit(At(str, j))

\* Index i of raw starts an escape: a backslash after an even run of them
EscStart(raw, i) == At(raw, i) = 92 /\ BsRun(raw, i) % 2 = 0

IsUEsc(raw, i) == EscStart(raw, i) /\ At(raw, i + 1) = 117 /\ IsHex4(raw, i + 2)
IsHighU(raw, i) ==
  IsUEsc(raw, i) /\ Hex4(raw, i + 2) >= 55296 /\ Hex4(raw, i + 2) <= 56319
IsLowU(raw, i) ==
  IsUEsc(raw, i) /\ Hex4(raw, i + 2) >= 56320 /\ Hex4(raw, i + 2) <= 57343

SimpleEscapes == {34, 92, 47, 98, 102, 110, 114, 116}

SimpleEscape(c) ==
  IF c = 98 THEN 8 ELSE IF c = 102 THEN 12 ELSE IF c = 110 THEN 10
  ELSE IF c = 114 THEN 13 ELSE IF c = 116 THEN 9 ELSE c

\* The characters index i of raw contributes to the decoded string
Unescaped(raw, i) ==
  IF EscStart(raw, i) THEN
    IF raw[i + 1] # 117 THEN << SimpleEscape(raw[i + 1]) >>
    ELSE IF IsHighU(raw, i) /\ IsLowU(raw, i + 6)
         THEN << 65536 + ((Hex4(raw, i + 2) - 55296) * 1024) +
                 (Hex4(raw, i + 8) - 56320) >>
    ELSE IF IsLowU(raw, i) /\ i > 6 /\ IsHighU(raw, i - 6) THEN <<>>
    ELSE << Hex4(raw, i + 2) >>
  ELSE IF i > 1 /\ EscStart(raw, i - 1) THEN <<>>
  ELSE IF \E k \in 2..5 : i > k /\ IsUEsc(raw, i - k) THEN <<>>
  ELSE << raw[i] >>

\* The string between the quotes, raw, with next the index after it
StringBody(raw, next) ==
  IF \E j \in 1..Len(raw) : raw[j] < 32 THEN ParseFail
  ELSE IF \A j \in 1..Len(raw) : raw[j] # 92
  THEN [ok |-> TRUE, val |-> JStr(raw), next |-> next]
  ELSE IF \E j \in 1..Len(raw) :
            EscStart(raw, j) /\ At(raw, j + 1) \notin SimpleEscapes /\ ~IsUEsc(raw, j)
  THEN ParseFail
  ELSE [ok |-> TRUE,
        val |-> JStr(Loop(LAMBDA acc, j : acc \o Unescaped(raw, j), <<>>, 1, Len(raw))),
        next |-> next]

\* The string that ends at the first of the closing quotes
StringUpTo(str, i, quotes) ==
  IF quotes = {} THEN ParseFail
  ELSE StringBody(SubSeq(str, i + 1, SetMin(quotes) - 1), SetMin(quotes) + 1)

\* A JSON string whose opening quote is at index i
ParseString(str, i) ==
  StringUpTo(str, i, {j \in (i + 1)..Len(str) : str[j] = 34 /\ BsRun(str, j) % 2 = 0})

MaxDigits == 10

\* The integer whose digits are at first .. stop - 1
NumberEnd(str, i, first, stop) ==
  IF At(str, stop) \in {46, 101, 69} THEN ParseFail
  ELSE [ok |-> TRUE,
        val |-> JInt((IF first > i THEN 0 - 1 ELSE 1) *
                     Loop(LAMBDA acc, j : (acc * 10) + (str[j] - 48), 0, first, stop - 1)),
        next |-> stop]

NumberDigits(str, i, first, stops) ==
  IF ~IsDigit(At(str, first)) \/ stops = {} THEN ParseFail
  ELSE NumberEnd(str, i, first, IF str[first] = 48 THEN first + 1 ELSE SetMin(stops))

NumberFrom(str, i, first) ==
  NumberDigits(str, i, first, {j \in first..(first + MaxDigits) : ~IsDigit(At(str, j))})

\* A JSON integer that starts at index i
ParseNumber(str, i) == NumberFrom(str, i, IF str[i] = 45 THEN i + 1 ELSE i)

ParseLiteral(str, i, word, val) ==
  IF i + Len(word) - 1 <= Len(str) /\ SubSeq(str, i, i + Len(word) - 1) = word
  THEN [ok |-> TRUE, val |-> val, next |-> i + Len(word)]
  ELSE ParseFail

RECURSIVE ParseValue(_, _)
RECURSIVE ParseItems(_, _, _)
RECURSIVE ParseMembers(_, _, _)

\* After an item: a comma and the next item, or the closing bracket
ItemsNext(str, acc, after) ==
  IF At(str, after) = 44 THEN ParseItems(str, SkipWs(str, after + 1), acc)
  ELSE IF At(str, after) = 93
  THEN [ok |-> TRUE, val |-> JList(acc), next |-> after + 1]
  ELSE ParseFail

ItemsAfter(str, acc, item) ==
  IF ~item.ok THEN ParseFail
  ELSE ItemsNext(str, Append(acc, item.val), SkipWs(str, item.next))

\* The items of an array from index i, which holds the next item
ParseItems(str, i, acc) == ItemsAfter(str, acc, ParseValue(str, i))

\* After a member: a comma and the next member, or the closing brace
MembersNext(str, acc, after) ==
  IF At(str, after) = 44 THEN ParseMembers(str, SkipWs(str, after + 1), acc)
  ELSE IF At(str, after) = 125 THEN [ok |-> TRUE, val |-> acc, next |-> after + 1]
  ELSE ParseFail

MemberValue(str, acc, key, member) ==
  IF ~member.ok THEN ParseFail
  ELSE MembersNext(str, DictSet(acc, key, member.val), SkipWs(str, member.next))

MemberColon(str, acc, key, colon) ==
  IF At(str, colon) # 58 THEN ParseFail
  ELSE MemberValue(str, acc, key, ParseValue(str, SkipWs(str, colon + 1)))

MemberName(str, acc, name) ==
  IF ~name.ok THEN ParseFail
  ELSE MemberColon(str, acc, name.val.v, SkipWs(str, name.next))

\* The members of an object from index i, which holds the next key
ParseMembers(str, i, acc) ==
  IF At(str, i) # 34 THEN ParseFail ELSE MemberName(str, acc, ParseString(str, i))

\* The value of an array or object whose bracket is before index inner
ParseContainer(str, inner, close, empty) ==
  IF At(str, inner) = close THEN [ok |-> TRUE, val |-> empty, next |-> inner + 1]
  ELSE IF close = 125 THEN ParseMembers(str, inner, empty)
  ELSE ParseItems(str, inner, <<>>)

ParseValueAt(str, i, c) ==
  IF c = 34 THEN ParseString(str, i)
  ELSE IF c = 123 THEN ParseContainer(str, SkipWs(str, i + 1), 125, JDict(<<>>))
  ELSE IF c = 91 THEN ParseContainer(str, SkipWs(str, i + 1), 93, JList(<<>>))
  ELSE IF c = 45 \/ IsDigit(c) THEN ParseNumber(str, i)
  ELSE IF c = 116 THEN ParseLiteral(str, i, << 116, 114, 117, 101 >>, JBool(TRUE))
  ELSE IF c = 102 THEN ParseLiteral(str, i, << 102, 97, 108, 115, 101 >>, JBool(FALSE))
  ELSE IF c = 110 THEN ParseLiteral(str, i, << 110, 117, 108, 108 >>, JNull)
  ELSE ParseFail

\* The JSON value that starts at index i
ParseValue(str, i) == ParseValueAt(str, i, At(str, i))

\* The whole text is one value with whitespace around it
Loaded(str, parsed) ==
  IF parsed.ok /\ SkipWs(str, parsed.next) = Len(str) + 1
  THEN [ok |-> TRUE, val |-> parsed.val]
  ELSE [ok |-> FALSE, val |-> JNull]

\* json.loads(text)
loads(str) == Loaded(str, ParseValue(str, SkipWs(str, 1)))

-----------------------------------------------------------------------------
(* PacketManager (protocol/packet.py).  The text that Python's exception
   message adds after "JSON_PARSE_ERROR: " and "INNER_JSON_ERROR: " is left
   out: the model keeps the prefix. *)

K_status == << 115, 116, 97, 116, 117, 115 >>  \* "status"
K_error == << 101, 114, 114, 111, 114 >>  \* "error"
K_message == << 109, 101, 115, 115, 97, 103, 101 >>  \* "message"
K_device_id == << 100, 101, 118, 105, 99, 101, 95, 105, 100 >>  \* "device_id"
K_payload == << 112, 97, 121, 108, 111, 97, 100 >>  \* "payload"
K_signature == << 115, 105, 103, 110, 97, 116, 117, 114, 101 >>  \* "signature"
K_version == << 118, 101, 114, 115, 105, 111, 110 >>  \* "version"
K_counter == << 99, 111, 117, 110, 116, 101, 114 >>  \* "counter"
K_command == << 99, 111, 109, 109, 97, 110, 100 >>  \* "command"
K_data == << 100, 97, 116, 97 >>  \* "data"
K_request_id == << 114, 101, 113, 117, 101, 115, 116, 95, 105, 100 >>  \* "request_id"
K_timestamp == << 116, 105, 109, 101, 115, 116, 97, 109, 112 >>  \* "timestamp"
S_success == << 115, 117, 99, 99, 101, 115, 115 >>  \* "success"
S_error == << 101, 114, 114, 111, 114 >>  \* "error"
S_timeout == << 116, 105, 109, 101, 111, 117, 116 >>  \* "timeout"
PROTOCOL_VERSION == << 49, 46, 48 >>  \* "1.0"
JSON_PARSE_ERROR == << 74, 83, 79, 78, 95, 80, 65, 82, 83, 69, 95, 69, 82, 82, 79, 82, 58, 32 >>  \* "JSON_PARSE_ERROR: "
MISSING_FIELD == << 77, 73, 83, 83, 73, 78, 71, 95, 70, 73, 69, 76, 68, 58, 32 >>  \* "MISSING_FIELD: "
INVALID_SIGNATURE == << 73, 78, 86, 65, 76, 73, 68, 95, 83, 73, 71, 78, 65, 84, 85, 82, 69 >>  \* "INVALID_SIGNATURE"
INNER_JSON_ERROR == << 73, 78, 78, 69, 82, 95, 74, 83, 79, 78, 95, 69, 82, 82, 79, 82, 58, 32 >>  \* "INNER_JSON_ERROR: "

\* {"status": "error", "error": text}
ErrorResult(text) ==
  JDict(<< << K_status, JStr(S_error) >>, << K_error, JStr(text) >> >>)

\* outer = {"device_id", "payload", "signature", "version"}, serialized
SignedPacket(hk, device_id, payload_hex) ==
  dumps_compact(JDict(<< << K_device_id, device_id >>,
                         << K_payload, JStr(payload_hex) >>,
                         << K_signature, JStr(calculate_hmac(hk, payload_hex)) >>,
                         << K_version, JStr(PROTOCOL_VERSION) >> >>))

\* The outer packet of create_command_packet and create_response_packet
OuterPacket(ck, hk, device_id, inner_json, full_nonce) ==
  SignedPacket(hk, device_id, create_secure_response(ck, inner_json, full_nonce))

\* An inner packet that drops the parameters
InnerCommand_no_data(command, data, request_id, timestamp) ==
  JDict(<< << K_command, command >>,
           << K_data, JDict(<<>>) >>,
           << K_request_id, JStr(request_id) >>,
           << K_timestamp, JInt(timestamp) >> >>)

\* The inner packet of create_command_packet; request_id stands for
\* str(uuid.uuid4())[:8] and timestamp for int(time.time())
InnerCommand(command, data, request_id, timestamp) ==
  JDict(<< << K_command, command >>,
           << K_data, IF Truthy(data) THEN data ELSE JDict(<<>>) >>,
           << K_request_id, JStr(request_id) >>,
           << K_timestamp, JInt(timestamp) >> >>)

\* PacketManager.create_command_packet; one call of create_secure_response,
\* so the caller's request_counter goes up by one
create_command_packet(ck, hk, device_id, command, data, request_id, timestamp, full_nonce) ==
  OuterPacket(ck, hk, device_id,
              dumps_compact(InnerCommand(command, data, request_id, timestamp)),
              full_nonce)

\* PacketManager.create_response_packet
create_response_packet(ck, hk, device_id, response_data, timestamp, full_nonce) ==
  OuterPacket(ck, hk, device_id,
              dumps_compact(IF DictHas(response_data, K_timestamp) THEN response_data
                            ELSE DictSet(response_data, K_timestamp, JInt(timestamp))),
              full_nonce)

\* needle in hay, for two str
IsSubstring(needle, hay) ==
  \E i \in 1..(Len(hay) - Len(needle) + 1) : SubSeq(hay, i, i + Len(needle) - 1) = needle

\* "field not in outer" raises TypeError for a value that is no container
InRaises(outer) == outer.t \in {"int", "bool", "null"}

\* field in outer, by the type of outer
FieldIn(field, outer) ==
  IF outer.t = "dict" THEN DictHas(outer, field)
  ELSE IF outer.t = "list"
       THEN \E i \in 1..Len(outer.v) : outer.v[i].t = "str" /\ outer.v[i].v = field
  ELSE IsSubstring(field, outer.v)

required == << K_device_id, K_payload, K_signature >>

\* str.encode("utf-8") raises UnicodeEncodeError on a lone surrogate
EncodeRaises(str) == \E i \in 1..Len(str) : str[i] >= 55296 /\ str[i] <= 57343

\* An item of the iterable that dict.update(list) accepts: a list of two
\* items with a hashable first one, or a str of two characters
IsPair(val) ==
  \/ val.t = "str" /\ Len(val.v) = 2
  \/ val.t = "list" /\ Len(val.v) = 2 /\ val.v[1].t \notin {"list", "dict"}

\* The key a pair gives; a key that is no str is kept apart from every str
\* key by a leading -1
PairKey(val) ==
  IF val.t = "str" THEN << val.v[1] >>
  ELSE IF val.v[1].t = "str" THEN val.v[1].v
  ELSE << 0 - 1 >> \o dumps_compact(val.v[1])

PairValue(val) == IF val.t = "str" THEN JStr(<< val.v[2] >>) ELSE val.v[2]

\* result.update(inner) raises TypeError or ValueError
UpdateRaises(inner) ==
  IF inner.t = "dict" THEN FALSE
  ELSE IF inner.t = "list" THEN \E i \in 1..Len(inner.v) : ~IsPair(inner.v[i])
  ELSE IF inner.t = "str" THEN Len(inner.v) > 0
  ELSE TRUE

\* result.update(inner) where it does not raise
Update(result, inner) ==
  IF inner.t = "dict" THEN DictUpdate(result, inner)
  ELSE IF inner.t = "list"
       THEN Loop(LAMBDA acc, i : DictSet(acc, PairKey(inner.v[i]), PairValue(inner.v[i])),
                 result, 1, Len(inner.v))
  ELSE result

\* What a call of process_incoming_packet does: raised (an exception leaves
\* the method), result (the mapping it returns), verified (how the call of
\* verify_hmac ended: "not called", "raised", "false" or "true"),
\* decrypt_called (process_secure_packet was invoked) and counted
\* (request_counter went up by one)
Outcome(raised, result, verified, decrypt_called, counted) ==
  [raised |-> raised, result |-> result, verified |-> verified,
   decrypt_called |-> decrypt_called, counted |-> counted]

\* result = {"status": "success"}, with the outer packet's counter if any
Success(outer) ==
  IF DictHas(outer, K_counter)
  THEN JDict(<< << K_status, JStr(S_success) >>,
                << K_counter, DictGet(outer, K_counter) >> >>)
  ELSE JDict(<< << K_status, JStr(S_success) >> >>)

\* Lines 113-127: the inner packet parsed, and result.update(inner)
ProcessInner(outer, counted, inner) ==
  IF ~inner.ok
  THEN Outcome(FALSE, ErrorResult(INNER_JSON_ERROR), "true", TRUE, counted)
  ELSE IF UpdateRaises(inner.val) THEN Outcome(TRUE, JNull, "true", TRUE, counted)
  ELSE Outcome(FALSE, Update(Success(outer), inner.val), "true", TRUE, counted)

\* Lines 109-110: what process_secure_packet returned
ProcessDecrypted(outer, decrypted) ==
  IF startswith(decrypted.ret, ERROR_PREFIX)
  THEN Outcome(FALSE, ErrorResult(decrypted.ret), "true", TRUE, decrypted.counted)
  ELSE ProcessInner(outer, decrypted.counted, loads(decrypted.ret))

\* A process_incoming_packet that decrypts the payload whatever the signature
ProcessSigned_unverified(ck, hk, outer, payload_hex, signature) ==
  IF payload_hex.t # "str" \/ signature.t # "str"
  THEN Outcome(TRUE, JNull, "raised", FALSE, FALSE)
  ELSE IF EncodeRaises(payload_hex.v) THEN Outcome(TRUE, JNull, "raised", FALSE, FALSE)
  ELSE ProcessDecrypted(outer, process_secure_packet(ck, payload_hex.v))

\* Lines 99-107: the signature verified, then the payload decrypted
ProcessSigned(ck, hk, outer, payload_hex, signature) ==
  IF payload_hex.t # "str" \/ signature.t # "str"
  THEN Outcome(TRUE, JNull, "raised", FALSE, FALSE)
  ELSE IF EncodeRaises(payload_hex.v) THEN Outcome(TRUE, JNull, "raised", FALSE, FALSE)
  ELSE IF ~verify_hmac(hk, payload_hex.v, signature.v)
  THEN Outcome(FALSE, ErrorResult(INVALID_SIGNATURE), "false", FALSE, FALSE)
  ELSE ProcessDecrypted(outer, process_secure_packet(ck, payload_hex.v))

\* The required fields that are not in outer
Missing(outer) == {i \in 1..Len(required) : ~FieldIn(required[i], outer)}

\* A check of the required fields that names the last lacking one
ProcessOuter_last_missing(ck, hk, outer) ==
  IF InRaises(outer) THEN Outcome(TRUE, JNull, "not called", FALSE, FALSE)
  ELSE IF Missing(outer) # {}
  THEN Outcome(FALSE, ErrorResult(MISSING_FIELD \o required[SetMax(Missing(outer))]),
               "not called", FALSE, FALSE)
  ELSE IF outer.t # "dict" THEN Outcome(TRUE, JNull, "not called", FALSE, FALSE)
  ELSE ProcessSigned(ck, hk, outer, DictGet(outer, K_payload),
                     DictGet(outer, K_signature))

\* A process_incoming_packet that takes packets of its own version only
ProcessOuter_own_version(ck, hk, outer) ==
  IF InRaises(outer) THEN Outcome(TRUE, JNull, "not called", FALSE, FALSE)
  ELSE IF Missing(outer) # {}
  THEN Outcome(FALSE, ErrorResult(MISSING_FIELD \o required[SetMin(Missing(outer))]),
               "not called", FALSE, FALSE)
  ELSE IF outer.t # "dict" THEN Outcome(TRUE, JNull, "not called", FALSE, FALSE)
  ELSE IF ~SameJson(DictGet(outer, K_version), JStr(PROTOCOL_VERSION))
  THEN Outcome(FALSE, ErrorResult(MISSING_FIELD \o K_version), "not called", FALSE, FALSE)
  ELSE ProcessSigned(ck, hk, outer, DictGet(outer, K_payload),
                     DictGet(outer, K_signature))

\* Lines 93-100: the required fields, then outer["payload"], outer["signature"]
ProcessOuter(ck, hk, outer) ==
  IF InRaises(outer) THEN Outcome(TRUE, JNull, "not called", FALSE, FALSE)
  ELSE IF Missing(outer) # {}
  THEN Outcome(FALSE, ErrorResult(MISSING_FIELD \o required[SetMin(Missing(outer))]),
               "not called", FALSE, FALSE)
  ELSE IF outer.t # "dict" THEN Outcome(TRUE, JNull, "not called", FALSE, FALSE)
  ELSE ProcessSigned(ck, hk, outer, DictGet(outer, K_payload),
                     DictGet(outer, K_signature))

\* Lines 87-91: the outer packet parsed
ProcessParsed(ck, hk, parsed) ==
  IF ~parsed.ok
  THEN Outcome(FALSE, ErrorResult(JSON_PARSE_ERROR), "not called", FALSE, FALSE)
  ELSE ProcessOuter(ck, hk, parsed.val)

\* PacketManager.process_incoming_packet
process_incoming_packet(ck, hk, packet_json) ==
  ProcessParsed(ck, hk, loads(packet_json))

-----------------------------------------------------------------------------
(* The program's state.  token is the secret handed to the constructor and
   constructed tells how Crypto.__init__ ended; chacha_key, hmac_key and
   request_counter are the engine's fields; invoked is the last method call
   on the engine or the PacketManager, with its arguments and outcome, and
   previous the call before it. *)

VARIABLES token, constructed, chacha_key, hmac_key, request_counter, previous, invoked

(* transport is the kind of handler ("tcp" for TCPHandler, "http" for
   CloudClient over the relay), phase the place send_command has reached,
   sending the command on its way, awaited the request id _send_http read
   back from its own packet, pulls the pull calls issued by this send,
   sock_open whether the TCP socket is open, and returned what send_command
   returned.  inflight is the packet text on its way between the two ends,
   replies the envelopes the device's side has ready for the client, queue
   the places in replies of the messages waiting at the relay, and pulled the
   places of those that a pull has handed to the client. *)

VARIABLES transport, phase, sending, awaited, pulls, sock_open, returned
VARIABLES inflight, replies, queue, pulled

(* failed is the network call of the last send that failed or timed out
   ("none" if none did).  The remaining variables belong to CloudClient over the stream:
   ws_available stands for WEBSOCKET_AVAILABLE and api_token tells whether an
   API token is configured; ws is the field _ws (0 for None, else the number
   of the link it holds); links holds "open" or "closed" for every link that
   create_connection returned, written the messages the client sent on the
   links, inbox the server's messages waiting on the link of _ws, consumed
   the messages that _connect_wss received, read the messages that the
   receive loop of _wait_wss_response received, and sends the number of
   sends begun. *)

VARIABLES failed, ws_available, api_token, ws, links, written, inbox, consumed, read, sends

(* The next three variables belong to WakeLinkClient.run: dev is the stored
   description of the device the command is for, mode_override the mode given
   on the command line ("" for none), and handler what run has made of them:
   the handler it built, or none with the kind of message it printed.  calls
   holds, for clients that send to one device over the relay at the same
   time, how far the send of each has come (empty when there is one client
   only, whose send the variables above describe). *)

VARIABLES dev, mode_override, handler, calls

selectVars == << dev, mode_override, handler, calls >>

streamVars ==
  << ws_available, api_token, ws, links, written, inbox, consumed, read, sends,
     selectVars >>

engineVars ==
  << token, constructed, chacha_key, hmac_key, request_counter, previous, invoked >>

transportVars ==
  << transport, phase, sending, awaited, pulls, sock_open, returned,
     inflight, replies, queue, pulled, failed, streamVars >>

vars == << engineVars, transportVars >>

\* No handler was built by run
NoHandler ==
  [kind |-> "none", ip |-> <<>>, port |-> 0, base_url |-> <<>>, protocol |-> <<>>,
   http_url |-> <<>>, wss_url |-> <<>>, printed |-> "nothing"]

\* No device description: the handler was made by the caller
NoDevice ==
  [ip |-> <<>>, port |-> 0, http_url |-> <<>>, wss_url |-> <<>>, url |-> <<>>,
   protocol |-> <<>>]

\* The handler was not made by run
InitCaller ==
  /\ dev = NoDevice
  /\ mode_override = ""
  /\ handler = NoHandler
  /\ calls = <<>>

\* No send has failed, and the stream is not in use
InitStream ==
  /\ InitCaller
  /\ failed = "none"
  /\ ws_available = FALSE
  /\ api_token = FALSE
  /\ ws = 0
  /\ links = <<>>
  /\ written = <<>>
  /\ inbox = <<>>
  /\ consumed = <<>>
  /\ read = <<>>
  /\ sends = 0

InitTransport ==
  /\ transport = "none"
  /\ phase = "idle"
  /\ sending = 0
  /\ awaited = JNull
  /\ pulls = 0
  /\ sock_open = FALSE
  /\ returned = JNull
  /\ inflight = <<>>
  /\ replies = <<>>
  /\ queue = <<>>
  /\ pulled = <<>>
  /\ InitStream

\* The most characters a token of the model goes beyond the minimum
TokenSlack == 6

Rep(c, n) == [i \in 1..n |-> c]

\* The secrets tried: none, one character short, exactly enough, and longer
Tokens ==
  << <<>>, Rep(65, MinTokenLen - 1), Rep(65, MinTokenLen),
     Rep(119, MinTokenLen) \o Rep(55, TokenSlack) >>

\* A method call and what came of it: its arguments, the value it returned
\* and the value request_counter had when it was made
Call(op, arg, arg2, ret) ==
  [op |-> op, arg |-> arg, arg2 |-> arg2, ret |-> ret,
   counter_before |-> request_counter]

NoCall == [op |-> "none", arg |-> <<>>, arg2 |-> <<>>, ret |-> <<>>, counter_before |-> 0]

\* The plaintexts handed to create_secure_response: empty, short, around the
\* 64-byte keystream block, an in-band error text, multi-byte characters, and
\* at and beyond the 500-byte cap
Plaintexts ==
  << <<>>, << 97 >>, << 112, 105, 110, 103 >>,
     Rep(120, 63), Rep(120, 64), Rep(120, 65),
     ERROR_TOO_SHORT, << 233, 8364, 128512 >>,
     Rep(121, MaxPlaintext), Rep(233, MaxPlaintext \div 2),
     Rep(122, MaxPlaintext + 1), << 97 >> \o Rep(233, MaxPlaintext \div 2) >>

\* The values os.urandom(16) takes in the model
Nonces == << [i \in 1..16 |-> i], Rep(255, 16) >>

upper(str) ==
  [i \in 1..Len(str) |-> IF str[i] >= 97 /\ str[i] <= 122 THEN str[i] - 32
                          ELSE str[i]]

\* A packet of total bytes whose header declares length bytes of ciphertext
Crafted(length, total) == hex(PackH(length) \o Rep(7, total - 2))

\* Payloads a peer may send that create_secure_response never builds
CraftedPayloads ==
  << <<>>, << 48, 48 >>, << 48 >>, << 122, 122 >>,
     Crafted(0, MinPacket - 1), Crafted(0, MinPacket), Crafted(0, MinPacket + 12),
     Crafted(1, MinPacket), Crafted(1, MinPacket + 1),
     Crafted(MaxPlaintext, MaxPlaintext + MinPacket - 1),
     Crafted(MaxPlaintext, MaxPlaintext + MinPacket),
     Crafted(MaxPlaintext + 1, MaxPlaintext + MinPacket + 1),
     Crafted(65535, MinPacket),
     << 32 >> \o Crafted(0, MinPacket),
     << 48, 48, 32, 48, 48, 10 >> \o Crafted(0, MinPacket - 2) >>

\* Ways a holder of a packet passes it on: as it is, in upper case, with a
\* space after the length field, with its last four bytes replaced, and with
\* one more byte at its end
Relayed(hex_packet) ==
  << hex_packet, upper(hex_packet),
     SubSeq(hex_packet, 1, 4) \o << 32 >> \o SubSeq(hex_packet, 5, Len(hex_packet)),
     SubSeq(hex_packet, 1, Len(hex_packet) - 8) \o Rep(53, 8),
     hex_packet \o << 48, 48 >> >>

\* The data strings signed: empty, multi-byte characters, a payload
SignedData ==
  << <<>>, << 233, 8364, 128512 >>, Crafted(4, MinPacket + 4) >>

\* The signature with the hex digit at place at moved by shift values
Replaced(signature, at, shift) ==
  [signature EXCEPT ![at] = HexDigits[((HexVal(signature[at]) + shift) % 16) + 1]]

\* The signatures offered to verify_hmac for a string whose HMAC is mac: the
\* HMAC itself, in upper case, with one digit replaced (first, middle and last
\* place, three other values each, one of them in upper case), one digit
\* short, and empty
Offered(mac) ==
  << mac, upper(mac),
     Replaced(mac, 1, 1), Replaced(mac, 1, 8), Replaced(mac, 1, 15),
     Replaced(mac, 32, 1), Replaced(mac, 32, 8), Replaced(mac, 32, 15),
     Replaced(mac, 64, 1), Replaced(mac, 64, 8), Replaced(mac, 64, 15),
     upper(Replaced(mac, 32, 5)), SubSeq(mac, 1, 63), <<>> >>

NumOffered == Len(Offered(Rep(48, 64)))

-----------------------------------------------------------------------------
(* The engine's operations.  A behaviour makes a first call with an input of
   the sets above and may feed what it returned to a second call. *)

KeepEngine == UNCHANGED << token, constructed, chacha_key, hmac_key >>

\* Crypto(token), and with it PacketManager(token, device_id) and the
\* handlers' constructors, which build one
Construct ==
  /\ constructed = "no"
  /\ LET engine == Crypto_init(token)
     IN  /\ constructed' = IF engine.raised = "none" THEN "yes" ELSE "raised"
         /\ chacha_key' = engine.chacha_key
         /\ hmac_key' = engine.hmac_key
         /\ request_counter' = engine.request_counter
  /\ UNCHANGED << token, previous, invoked, transportVars >>

\* Crypto.create_secure_response(plaintext)
CreateSecureResponse(q, r) ==
  /\ constructed = "yes"
  /\ invoked.op = "none"
  /\ invoked' = Call("create_secure_response", Plaintexts[q], Nonces[r],
                     create_secure_response(chacha_key, Plaintexts[q], Nonces[r]))
  /\ previous' = invoked
  /\ request_counter' = request_counter + 1
  /\ KeepEngine
  /\ UNCHANGED transportVars

\* The call of process_secure_packet recorded
Decrypted(hex_packet, decrypted) ==
  /\ invoked' = Call("process_secure_packet", hex_packet, <<>>, decrypted.ret)
  /\ previous' = invoked
  /\ request_counter' = IF decrypted.counted THEN request_counter + 1
                        ELSE request_counter
  /\ KeepEngine
  /\ UNCHANGED transportVars

\* Crypto.process_secure_packet(hex_packet)
ProcessSecurePacketOf(hex_packet) ==
  Decrypted(hex_packet, process_secure_packet(chacha_key, hex_packet))

\* process_secure_packet on a crafted payload
ProcessCrafted(m) ==
  /\ constructed = "yes"
  /\ invoked.op = "none"
  /\ ProcessSecurePacketOf(CraftedPayloads[m])

\* process_secure_packet on the packet create_secure_response just returned
ProcessCreated(m) ==
  /\ constructed = "yes"
  /\ invoked.op = "create_secure_response"
  /\ ProcessSecurePacketOf(Relayed(invoked.ret)[m])

\* Crypto.calculate_hmac(data)
CalculateHmac(m) ==
  /\ constructed = "yes"
  /\ invoked.op = "none"
  /\ invoked' = Call("calculate_hmac", SignedData[m], <<>>,
                     calculate_hmac(hmac_key, SignedData[m]))
  /\ previous' = invoked
  /\ KeepEngine
  /\ UNCHANGED << request_counter, transportVars >>

\* Crypto.verify_hmac(data, signature) on the data just signed
VerifyHmac(g) ==
  /\ constructed = "yes"
  /\ invoked.op = "calculate_hmac"
  /\ invoked' = Call("verify_hmac", invoked.arg, Offered(invoked.ret)[g],
                     verify_hmac(hmac_key, invoked.arg, Offered(invoked.ret)[g]))
  /\ previous' = invoked
  /\ KeepEngine
  /\ UNCHANGED << request_counter, transportVars >>

\* The inputs hashed: the empty input, "abc", and inputs of 55, 56 and 64
\* bytes, whose padded length is one block (55) and two blocks (56, 64)
HashInputs ==
  << <<>>, << 97, 98, 99 >>, Rep(97, 55), Rep(97, 56), Rep(97, 64) >>

\* The SHA-256 digests of HashInputs as the standard gives them (FIPS 180-4;
\* e3b0c442...7852b855 for the empty input, ba7816bf...f20015ad for "abc")
HashDigests ==
  << << 227, 176, 196, 66, 152, 252, 28, 20, 154, 251, 244, 200, 153, 111, 185, 36,
        39, 174, 65, 228, 100, 155, 147, 76, 164, 149, 153, 27, 120, 82, 184, 85 >>,
     << 186, 120, 22, 191, 143, 1, 207, 234, 65, 65, 64, 222, 93, 174, 34, 35,
        176, 3, 97, 163, 150, 23, 122, 156, 180, 16, 255, 97, 242, 0, 21, 173 >>,
     << 159, 67, 144, 248, 211, 12, 45, 217, 46, 201, 240, 149, 182, 94, 43, 154,
        233, 176, 169, 37, 165, 37, 142, 36, 28, 159, 30, 145, 15, 115, 67, 24 >>,
     << 179, 84, 57, 164, 172, 111, 9, 72, 182, 214, 249, 227, 198, 175, 15, 95,
        89, 12, 226, 15, 27, 222, 112, 144, 239, 121, 112, 104, 110, 198, 115, 138 >>,
     << 255, 224, 84, 254, 122, 224, 203, 109, 198, 92, 58, 249, 182, 29, 82, 9,
        244, 57, 133, 29, 180, 61, 11, 165, 153, 115, 55, 223, 21, 70, 104, 235 >> >>

\* Crypto._sha256(data) on one of the inputs above
Sha256(m) ==
  /\ constructed = "yes"
  /\ invoked.op = "none"
  /\ invoked' = Call("_sha256", HashInputs[m], <<>>, sha256(HashInputs[m]))
  /\ previous' = invoked
  /\ KeepEngine
  /\ UNCHANGED << request_counter, transportVars >>

\* The published ChaCha20 block vectors (RFC 7539, 2.3.2 and A.1 #1): key,
\* nonce, block counter and the 64-byte keystream block
BlockVectors ==
  << [key |-> [i \in 1..32 |-> i - 1],
      nonce |-> << 0, 0, 0, 9, 0, 0, 0, 74, 0, 0, 0, 0 >>,
      counter |-> 1,
      block |->
        << 16, 241, 231, 228, 209, 59, 89, 21, 80, 15, 221, 31, 163, 32, 113, 196,
           199, 209, 244, 199, 51, 192, 104, 3, 4, 34, 170, 154, 195, 212, 108, 78,
           210, 130, 100, 70, 7, 159, 170, 9, 20, 194, 215, 5, 217, 139, 2, 162,
           181, 18, 156, 209, 222, 22, 78, 185, 203, 208, 131, 232, 162, 80, 60, 78 >>],
     [key |-> Rep(0, 32),
      nonce |-> Rep(0, 12),
      counter |-> 0,
      block |->
        << 118, 184, 224, 173, 160, 241, 61, 144, 64, 93, 106, 229, 83, 134, 189, 40,
           189, 210, 25, 184, 160, 141, 237, 26, 168, 54, 239, 204, 139, 119, 13, 199,
           218, 65, 89, 124, 81, 87, 72, 141, 119, 36, 224, 63, 184, 216, 74, 55,
           106, 67, 184, 244, 21, 24, 161, 28, 195, 135, 182, 105, 178, 238, 101, 134 >>] >>

\* Crypto._chacha20_block(key, nonce, counter) on a published vector; the
\* call is recorded with the counter after the nonce
ChaCha20Block(m) ==
  /\ constructed = "yes"
  /\ invoked.op = "none"
  /\ invoked' = Call("_chacha20_block", BlockVectors[m].key,
                     BlockVectors[m].nonce \o << BlockVectors[m].counter >>,
                     chacha20_block(BlockVectors[m].key, BlockVectors[m].nonce,
                                    BlockVectors[m].counter))
  /\ previous' = invoked
  /\ KeepEngine
  /\ UNCHANGED << request_counter, transportVars >>

\* The inputs of _chacha20_encrypt: empty, within one block, exactly one
\* block, one byte into the second block, and into the third block
StreamInputs ==
  << <<>>, << 112, 105, 110, 103 >>, Rep(120, 64), Rep(120, 65),
     [i \in 1..130 |-> i] >>

\* The call of _chacha20_encrypt recorded
ChaCha20Encrypted(plaintext, nonce, ciphertext) ==
  /\ invoked' = Call("_chacha20_encrypt", plaintext, nonce, ciphertext)
  /\ previous' = invoked
  /\ KeepEngine
  /\ UNCHANGED << request_counter, transportVars >>

\* Crypto._chacha20_encrypt(self.chacha_key, nonce12, data), as
\* create_secure_response and process_secure_packet call it
ChaCha20Encrypt(m, r) ==
  /\ constructed = "yes"
  /\ invoked.op = "none"
  /\ ChaCha20Encrypted(StreamInputs[m], SubSeq(Nonces[r], 1, 12),
                       chacha20_encrypt(chacha_key, SubSeq(Nonces[r], 1, 12),
                                        StreamInputs[m]))

\* _chacha20_encrypt applied to what it just returned, same key and nonce
ChaCha20EncryptAgain ==
  /\ constructed = "yes"
  /\ invoked.op = "_chacha20_encrypt"
  /\ previous.op = "none"
  /\ ChaCha20Encrypted(invoked.ret, invoked.arg2,
                       chacha20_encrypt(chacha_key, invoked.arg2, invoked.ret))

InitEngine ==
  /\ token \in {Tokens[t] : t \in 1..Len(Tokens)}
  /\ constructed = "no"
  /\ chacha_key = <<>>
  /\ hmac_key = <<>>
  /\ request_counter = 0
  /\ previous = NoCall
  /\ invoked = NoCall

InitCrypto == InitEngine /\ InitTransport

NextCrypto ==
  \/ Construct
  \/ \E q \in 1..Len(Plaintexts), r \in 1..Len(Nonces) : CreateSecureResponse(q, r)
  \/ \E m \in 1..Len(CraftedPayloads) : ProcessCrafted(m)
  \/ \E m \in DOMAIN Relayed(Crafted(0, MinPacket)) : ProcessCreated(m)
  \/ \E m \in 1..Len(SignedData) : CalculateHmac(m)
  \/ \E g \in 1..NumOffered : VerifyHmac(g)
  \/ \E m \in 1..Len(HashInputs) : Sha256(m)
  \/ \E m \in 1..Len(BlockVectors) : ChaCha20Block(m)
  \/ \E m \in 1..Len(StreamInputs), r \in 1..Len(Nonces) : ChaCha20Encrypt(m, r)
  \/ ChaCha20EncryptAgain

SpecCrypto == InitCrypto /\ [][NextCrypto]_vars

-----------------------------------------------------------------------------
(* Properties of the engine, checked under SpecCrypto *)

\* The last call decrypted the packet that the call before it created
RoundTripped ==
  /\ invoked.op = "process_secure_packet"
  /\ previous.op = "create_secure_response"
  /\ invoked.arg = previous.ret

\* C4: for every plaintext of 0 to 500 bytes and every nonce,
\* process_secure_packet on the packet that create_secure_response made of it
\* under the same key returns exactly that plaintext, and the packet of the
\* empty plaintext is exactly 18 bytes.
C4_RoundTrip ==
  (RoundTripped /\ Len(utf8_encode(previous.arg)) <= 500) =>
    /\ invoked.ret = previous.arg
    /\ (previous.arg = <<>> => Len(previous.ret) = 2 * 18)

\* A plaintext of exactly 500 bytes (250 two-byte characters) came back
C4_Witness ==
  /\ RoundTripped
  /\ Len(previous.arg) = 250
  /\ Len(utf8_encode(previous.arg)) = 500
  /\ invoked.ret = previous.arg

\* The last call verified a signature over the data the call before it signed
VerifiedAfterSigning ==
  /\ invoked.op = "verify_hmac"
  /\ previous.op = "calculate_hmac"
  /\ invoked.arg = previous.arg

\* signature is mac with exactly one hex digit replaced by another hex value
OneDigitReplaced(signature, mac) ==
  /\ Len(signature) = Len(mac)
  /\ \A i \in 1..Len(signature) : HexVal(signature[i]) >= 0
  /\ Cardinality({i \in 1..Len(mac) : HexVal(signature[i]) # HexVal(mac[i])}) = 1

\* C5: verify_hmac(data, calculate_hmac(data)) is true, whatever the letter
\* case of the supplied signature, and verify_hmac(data, s) is false for every
\* s that differs from calculate_hmac(data) in the value of one hex digit.
C5_HmacVerify ==
  VerifiedAfterSigning =>
    /\ (lower(invoked.arg2) = previous.ret => invoked.ret = TRUE)
    /\ (OneDigitReplaced(invoked.arg2, previous.ret) => invoked.ret = FALSE)

\* An upper-case signature was accepted
C5_Witness ==
  /\ VerifiedAfterSigning
  /\ invoked.arg2 # previous.ret
  /\ lower(invoked.arg2) = previous.ret
  /\ invoked.ret = TRUE

\* The last call was process_secure_packet on a payload that hex-decodes
DecodablePayload == invoked.op = "process_secure_packet" /\ fromhex(invoked.arg).ok

\* The call returned the error text and left request_counter alone
Rejected(text) == invoked.ret = text /\ request_counter = invoked.counter_before

\* The declared length of the bytes p is over 500 or does not fit in p
BadSize(p) == (p[1] * 256) + p[2] > 500 \/ (p[1] * 256) + p[2] + 18 > Len(p)

\* The text that the ciphertext of p decrypts to under the engine's key
DecryptedText(p) ==
  utf8_decode_ignore(
    chacha20_encrypt(chacha_key, SubSeq(p, Len(p) - 15, Len(p) - 4),
                     SubSeq(p, 3, 2 + (p[1] * 256) + p[2])))

SizeChecks(p) ==
  /\ Rejected(ERROR_TOO_SHORT) <=> Len(p) < 18
  /\ Len(p) >= 18 => (Rejected(ERROR_INVALID_SIZE) <=> BadSize(p))
  /\ (Len(p) >= 18 /\ ~BadSize(p)) =>
       /\ invoked.ret = DecryptedText(p)
       /\ request_counter = invoked.counter_before + 1

\* C8: for every hex-decodable payload, process_secure_packet fails with
\* TOO_SHORT iff the payload has fewer than 18 bytes; otherwise it fails with
\* INVALID_SIZE iff the declared big-endian length is over 500 or the declared
\* length plus 18 is over the byte count; otherwise it returns the decrypted
\* text and counts the request.
C8_PacketSizeChecks == DecodablePayload => SizeChecks(fromhex(invoked.arg).bytes)

\* A payload that declares 500 bytes and is one byte short of holding them
C8_Witness ==
  /\ DecodablePayload
  /\ Len(fromhex(invoked.arg).bytes) = 517
  /\ invoked.ret = ERROR_INVALID_SIZE

\* C9: with a secret shorter than 32 characters construction fails, so no
\* key exists and no call is ever made on an engine or sent by a handler;
\* with a secret of 32 or more characters construction succeeds.
C9_WeakSecret ==
  /\ Len(token) < 32 =>
       /\ constructed # "yes"
       /\ chacha_key = <<>> /\ hmac_key = <<>>
       /\ invoked = NoCall
       /\ phase = "idle" /\ returned = JNull
  /\ Len(token) >= 32 => constructed # "raised"

\* The constructor refused a secret of 31 characters
C9_Witness == constructed = "raised" /\ Len(token) = 31

-----------------------------------------------------------------------------
(* The packets a PacketManager builds and receives.  The peer is the device
   at the other end: it holds the same secret, so what it signs verifies. *)

\* The device_id handed to PacketManager(token, device_id)
DeviceId == JStr(<< 101, 115, 112, 49 >>)  \* "esp1"

\* The values str(uuid.uuid4())[:8] takes in the model
RequestIds == << << 48, 97, 49, 98, 50, 99, 51, 100 >>, << 102, 102, 102, 102, 102, 102, 102, 102 >> >>  \* "0a1b2c3d", "ffffffff"

\* The value int(time.time()) takes in the model
Timestamps == << 1700000000 >>

T_ping == << 112, 105, 110, 103 >>  \* "ping"
T_wake == << 119, 97, 107, 101 >>  \* "wake"
T_mac == << 109, 97, 99 >>  \* "mac"
T_address == << 65, 65, 58, 66, 66, 58, 67, 67, 58, 68, 68, 58, 69, 69, 58, 70, 70 >>  \* "AA:BB:CC:DD:EE:FF"
T_odd == << 233, 34, 92 >>  \* e-acute, a quote and a backslash
T_k == << 107 >>  \* "k"
T_n == << 110 >>  \* "n"
T_x == << 120 >>  \* "x"
T_result == << 114, 101, 115, 117, 108, 116 >>  \* "result"
T_pong == << 112, 111, 110, 103 >>  \* "pong"
T_other == << 111, 116, 104, 101, 114 >>  \* "other"

\* {"k": "zz..z"}, sized so that the inner packet of ping with it has total
\* characters
Filler(total) ==
  JDict(<< << T_k,
              JStr(Rep(122, total - Len(dumps_compact(
                     InnerCommand(JStr(T_ping), JDict(<< << T_k, JStr(<<>>) >> >>),
                                  RequestIds[1], Timestamps[1])))) ) >> >>)

\* The commands sent: without parameters (None and {}), with a parameter,
\* with nested parameters and characters that JSON escapes, and with an inner
\* packet of exactly 500 and of 501 bytes
Commands ==
  << [command |-> JStr(T_ping), data |-> JNull],
     [command |-> JStr(T_ping), data |-> JDict(<<>>)],
     [command |-> JStr(T_wake), data |-> JDict(<< << T_mac, JStr(T_address) >> >>)],
     [command |-> JStr(T_odd),
      data |-> JDict(<< << T_k, JList(<< JInt(1), JBool(TRUE), JNull, JStr(T_x) >>) >>,
                        << T_n, JDict(<< << T_k, JInt(0 - 5) >> >>) >> >>)],
     [command |-> JStr(T_ping), data |-> Filler(MaxPlaintext)],
     [command |-> JStr(T_ping), data |-> Filler(MaxPlaintext + 1)] >>

\* A response of the device to the request request_id
Response(request_id) ==
  JDict(<< << K_status, JStr(S_success) >>,
           << K_request_id, JStr(request_id) >>,
           << T_result, JStr(T_pong) >> >>)

\* Inner texts the peer encrypts and signs: a response, an error response,
\* JSON that is no object (a number, null, an empty list, a list of one pair,
\* a two-character string), text that is no JSON, and a text that reads like
\* an error of process_secure_packet
PeerTexts ==
  << dumps_compact(Response(RequestIds[1])),
     dumps_compact(DictSet(Response(RequestIds[1]), K_status, JStr(S_error))),
     << 53 >>, << 110, 117, 108, 108 >>, << 91, 93 >>, << 91, 91, 34, 115, 116, 97, 116, 117, 115, 34, 44, 34, 120, 34, 93, 93 >>, << 34, 97, 98, 34 >>,
     << 110, 111, 116, 32, 106, 115, 111, 110 >>, ERROR_TOO_SHORT >>

\* Payloads the peer signs that process_secure_packet refuses
PeerPayloads ==
  << << 48, 48 >>, << 122, 122 >>, Crafted(0, MinPacket - 1),
     Crafted(MaxPlaintext + 1, MaxPlaintext + MinPacket + 1) >>

NumPeerPackets == Len(PeerTexts) + Len(PeerPayloads)

\* The m-th packet of the peer
PeerPacketOf(ck, hk, m) ==
  IF m <= Len(PeerTexts)
  THEN OuterPacket(ck, hk, DeviceId, PeerTexts[m], Nonces[2])
  ELSE SignedPacket(hk, DeviceId, PeerPayloads[m - Len(PeerTexts)])

K_direction == << 100, 105, 114, 101, 99, 116, 105, 111, 110 >>  \* "direction"

\* d without key
DictDel(d, key) == JDict(SelectSeq(d.v, LAMBDA item : item[1] # key))

\* str with its last hex digit replaced by another
LastReplaced(str) == IF str = <<>> THEN << 48 >> ELSE Replaced(str, Len(str), 1)

NumTampered == 20

\* What reaches process_incoming_packet when the packet text, which parses to
\* outer, is passed on: as it is, serialized again with Python's default
\* separators, with white space around it, with a counter, another device_id,
\* the signature in upper case, one digit of the signature or of the payload
\* replaced, required fields removed, payload or signature made something
\* that is no string, another version, one more field, a device_id that is a
\* number with no version, and a payload that cannot be encoded
Tampered(text, outer, m) ==
  CASE m = 1 -> text
    [] m = 2 -> dumps(outer)
    [] m = 3 -> << 32, 10 >> \o text \o << 13, 10 >>
    [] m = 4 -> dumps_compact(DictSet(outer, K_counter, JInt(7)))
    [] m = 5 -> dumps_compact(DictSet(outer, K_device_id, JStr(T_other)))
    [] m = 6 -> dumps_compact(DictSet(outer, K_signature,
                                      JStr(upper(DictGet(outer, K_signature).v))))
    [] m = 7 -> dumps_compact(DictSet(outer, K_signature,
                                      JStr(LastReplaced(DictGet(outer, K_signature).v))))
    [] m = 8 -> dumps_compact(DictSet(outer, K_payload,
                                      JStr(LastReplaced(DictGet(outer, K_payload).v))))
    [] m = 9 -> dumps_compact(DictDel(outer, K_device_id))
    [] m = 10 -> dumps_compact(DictDel(outer, K_payload))
    [] m = 11 -> dumps_compact(DictDel(outer, K_signature))
    [] m = 12 -> dumps_compact(DictDel(DictDel(outer, K_device_id), K_signature))
    [] m = 13 -> dumps_compact(DictDel(DictDel(DictDel(outer, K_device_id), K_payload),
                                       K_signature))
    [] m = 14 -> dumps_compact(DictSet(outer, K_payload, JInt(5)))
    [] m = 15 -> dumps_compact(DictSet(outer, K_signature, JNull))
    [] m = 16 -> dumps_compact(DictSet(DictDel(outer, K_signature), K_payload, JNull))
    [] m = 17 -> dumps_compact(DictSet(outer, K_version, JStr(<< 50, 46, 48 >>)))
    [] m = 18 -> dumps_compact(DictSet(outer, K_direction, JStr(T_other)))
    [] m = 19 -> dumps_compact(DictSet(DictDel(outer, K_version), K_device_id, JInt(5)))
    [] OTHER -> dumps_compact(DictSet(outer, K_payload, JStr(<< 55296 >>)))

\* Texts that arrive from the network and are no packet of either side
FreshInputs ==
  << <<>>, << 110, 111, 116, 32, 106, 115, 111, 110 >>, << 123 >>, << 53 >>, << 110, 117, 108, 108 >>, << 116, 114, 117, 101 >>, << 91, 93 >>, << 123, 125 >>,
     << 91, 34, 100, 101, 118, 105, 99, 101, 95, 105, 100, 34, 44, 34, 112, 97, 121, 108, 111, 97, 100, 34, 44, 34, 115, 105, 103, 110, 97, 116, 117, 114, 101, 34, 93 >>,
     << 34, 100, 101, 118, 105, 99, 101, 95, 105, 100, 32, 112, 97, 121, 108, 111, 97, 100, 32, 115, 105, 103, 110, 97, 116, 117, 114, 101, 34 >>,
     << 123, 34, 112, 97, 121, 108, 111, 97, 100, 34, 58, 34, 48, 48, 34, 125 >>,
     << 123, 34, 100, 101, 118, 105, 99, 101, 95, 105, 100, 34, 58, 34, 100, 34, 44, 34, 112, 97, 121, 108, 111, 97, 100, 34, 58, 34, 34, 44, 34, 115, 105, 103, 110, 97, 116, 117, 114, 101, 34, 58, 34, 34, 125 >>,
     << 123, 34, 100, 101, 118, 105, 99, 101, 95, 105, 100, 34, 58, 34, 100, 34, 44, 34, 112, 97, 121, 108, 111, 97, 100, 34, 58, 34, 48, 48, 34, 44, 34, 115, 105, 103, 110, 97, 116, 117, 114, 101, 34, 58, 110, 117, 108, 108, 125 >>,
     << 123, 34, 100, 101, 118, 105, 99, 101, 95, 105, 100, 34, 58, 49, 44, 34, 112, 97, 121, 108, 111, 97, 100, 34, 58, 34, 48, 48, 34, 44, 34, 115, 105, 103, 110, 97, 116, 117, 114, 101, 34, 58, 34, 48, 48, 34, 125 >> >>

-----------------------------------------------------------------------------
(* The PacketManager's operations.  A packet is created by this side or by the
   peer, and what the network makes of it is handed to
   process_incoming_packet. *)

\* The transport's variables but the packet on its way
handlerVars ==
  << transport, phase, sending, awaited, pulls, sock_open, returned,
     replies, queue, pulled, failed, streamVars >>

\* The arguments of create_command_packet with the values it draws
Command(c, i) ==
  [command |-> Commands[c].command, data |-> Commands[c].data,
   request_id |-> RequestIds[i], timestamp |-> Timestamps[1]]

\* create_command_packet for the arguments cmd and the random bytes full_nonce
CommandPacket(ck, hk, cmd, full_nonce) ==
  create_command_packet(ck, hk, DeviceId, cmd.command, cmd.data, cmd.request_id,
                        cmd.timestamp, full_nonce)

\* The call of create_command_packet recorded, its packet sent
Created(cmd, full_nonce, packet_json) ==
  /\ invoked' = Call("create_command_packet", cmd, full_nonce, packet_json)
  /\ previous' = invoked
  /\ inflight' = packet_json
  /\ request_counter' = request_counter + 1
  /\ KeepEngine
  /\ UNCHANGED handlerVars

\* PacketManager.create_command_packet(command, data)
CreateCommandPacket(c, i) ==
  /\ constructed = "yes"
  /\ invoked.op = "none"
  /\ inflight = <<>>
  /\ Created(Command(c, i), Nonces[1],
             CommandPacket(chacha_key, hmac_key, Command(c, i), Nonces[1]))

\* The peer sends a packet of its own
PeerSends(m) ==
  /\ constructed = "yes"
  /\ invoked.op = "none"
  /\ inflight = <<>>
  /\ inflight' = PeerPacketOf(chacha_key, hmac_key, m)
  /\ UNCHANGED << engineVars, handlerVars >>

\* The call of process_incoming_packet recorded
Processed(packet_json, done) ==
  /\ invoked' = Call("process_incoming_packet", packet_json, <<>>, done)
  /\ previous' = invoked
  /\ request_counter' = IF done.counted THEN request_counter + 1
                        ELSE request_counter
  /\ KeepEngine
  /\ UNCHANGED transportVars

\* PacketManager.process_incoming_packet(packet_json)
ProcessIncomingPacketOf(packet_json) ==
  Processed(packet_json, process_incoming_packet(chacha_key, hmac_key, packet_json))

\* process_incoming_packet on what the network made of the packet sent
ProcessReceived(m) ==
  /\ constructed = "yes"
  /\ inflight # <<>>
  /\ invoked.op # "process_incoming_packet"
  /\ ProcessIncomingPacketOf(Tampered(inflight, loads(inflight).val, m))

\* process_incoming_packet on a text that is no packet
ProcessFresh(m) ==
  /\ constructed = "yes"
  /\ invoked.op = "none"
  /\ inflight = <<>>
  /\ ProcessIncomingPacketOf(FreshInputs[m])

InitPacket == InitEngine /\ InitTransport

NextPacket ==
  \/ Construct
  \/ \E c \in 1..Len(Commands), i \in 1..Len(RequestIds) : CreateCommandPacket(c, i)
  \/ \E m \in 1..NumPeerPackets : PeerSends(m)
  \/ \E m \in 1..NumTampered : ProcessReceived(m)
  \/ \E m \in 1..Len(FreshInputs) : ProcessFresh(m)

SpecPacket == InitPacket /\ [][NextPacket]_vars

-----------------------------------------------------------------------------
(* Properties of the PacketManager, checked under SpecPacket *)

\* The last call was process_incoming_packet
Decoded == invoked.op = "process_incoming_packet"

\* The call returned result, without verifying a signature, decrypting or
\* counting a request
ReturnedEarly(result) ==
  /\ ~invoked.ret.raised
  /\ invoked.ret.result = result
  /\ ~invoked.ret.decrypt_called
  /\ request_counter = invoked.counter_before

\* parsed is a JSON object
IsEnvelope(parsed) == parsed.ok /\ parsed.val.t = "dict"

\* parsed is a JSON object with device_id, payload and signature
HasAllFields(parsed) ==
  /\ IsEnvelope(parsed)
  /\ DictHas(parsed.val, K_device_id)
  /\ DictHas(parsed.val, K_payload)
  /\ DictHas(parsed.val, K_signature)

\* The first of device_id, payload, signature that outer lacks
FirstLacking(outer) ==
  IF ~DictHas(outer, K_device_id) THEN K_device_id
  ELSE IF ~DictHas(outer, K_payload) THEN K_payload
  ELSE K_signature

InvalidSignatureOf(parsed) ==
  (HasAllFields(parsed) /\ invoked.ret.verified # "true") =>
    ReturnedEarly(ErrorResult(INVALID_SIGNATURE))

\* C2: for every outer envelope that contains device_id, payload and
\* signature and whose signature does not verify over the payload,
\* process_incoming_packet returns status error with error INVALID_SIGNATURE,
\* process_secure_packet is not invoked and request_counter is unchanged.
C2_InvalidSignature == Decoded => InvalidSignatureOf(loads(invoked.arg))

\* A valid envelope with inner object: the only input that status error need
\* not answer
WellFormedInner == invoked.ret.verified = "true" /\ invoked.ret.counted

\* C3: for every input string process_incoming_packet returns a mapping and
\* never raises, and the mapping has status error unless the input is a
\* correctly signed envelope whose payload decrypts.
C3_NeverRaises ==
  Decoded =>
    /\ ~invoked.ret.raised
    /\ invoked.ret.result.t = "dict"
    /\ (~WellFormedInner => DictGet(invoked.ret.result, K_status) = JStr(S_error))

\* The last call decoded, as it was, the packet that the call before it created
CommandDecoded ==
  /\ Decoded
  /\ previous.op = "create_command_packet"
  /\ invoked.arg = previous.ret

\* The UTF-8 bytes of the inner packet of the command cmd
InnerBytes(cmd) ==
  Len(utf8_encode(dumps_compact(
        InnerCommand(cmd.command, cmd.data, cmd.request_id, cmd.timestamp))))

IsRequestId(val) ==
  /\ val.t = "str"
  /\ Len(val.v) = 8
  /\ \A i \in 1..8 : HexVal(val.v[i]) >= 0

\* result is the decoded command cmd with the parameters data
DecodedAs(result, cmd, data) ==
  /\ ~invoked.ret.raised
  /\ result.t = "dict"
  /\ SameJson(DictGet(result, K_status), JStr(S_success))
  /\ SameJson(DictGet(result, K_command), cmd.command)
  /\ SameJson(DictGet(result, K_data), data)
  /\ IsRequestId(DictGet(result, K_request_id))
  /\ SameJson(DictGet(loads(previous.ret).val, K_version), JStr(PROTOCOL_VERSION))

\* C6 as stated: for every command name c and parameter mapping p, decoding
\* create_command_packet(c, p) under the same secret gives status success,
\* command c, data p, a request_id of 8 hex characters, and the outer
\* envelope has version "1.0".
C6_Original ==
  (CommandDecoded /\ previous.arg.data.t = "dict") =>
    DecodedAs(invoked.ret.result, previous.arg, previous.arg.data)

\* C6: for every command name c and parameters p whose inner packet,
\* serialized without white space, has at most 500 UTF-8 bytes, decoding
\* create_command_packet(c, p) under the same secret gives status success,
\* command c, data p (an empty mapping when p is None or empty), a request_id
\* of 8 hex characters, and the outer envelope has version "1.0".
C6_CommandRoundTrip ==
  (CommandDecoded /\ InnerBytes(previous.arg) <= 500) =>
    DecodedAs(invoked.ret.result, previous.arg,
              IF previous.arg.data.t = "dict" THEN previous.arg.data ELSE JDict(<<>>))

\* A command with parameters whose inner packet has exactly 500 bytes came
\* back
C6_Witness ==
  /\ CommandDecoded
  /\ InnerBytes(previous.arg) = 500
  /\ previous.arg.data.t = "dict"
  /\ DictGet(invoked.ret.result, K_data) = previous.arg.data

MissingFieldOf(parsed) ==
  (IsEnvelope(parsed) /\ ~HasAllFields(parsed)) =>
    /\ ReturnedEarly(ErrorResult(MISSING_FIELD \o FirstLacking(parsed.val)))
    /\ invoked.ret.verified = "not called"

\* C7: for every outer envelope object that lacks one or more of device_id,
\* payload, signature, process_incoming_packet returns status error with
\* error MISSING_FIELD: <name>, naming the first lacking field in the order
\* device_id, payload, signature, and neither verify_hmac nor
\* process_secure_packet is called.
C7_MissingField == Decoded => MissingFieldOf(loads(invoked.arg))

\* An envelope of the peer that lost its payload alone
C7_Witness ==
  /\ Decoded
  /\ inflight # <<>>
  /\ ~invoked.ret.raised
  /\ invoked.ret.result = ErrorResult(MISSING_FIELD \o K_payload)
  /\ DictHas(loads(invoked.arg).val, K_device_id)
  /\ DictHas(loads(invoked.arg).val, K_signature)

-----------------------------------------------------------------------------
(* The handlers: TCPHandler.send_command (handlers/tcp_handler.py) and
   CloudClient.send_command over the relay (handlers/cloud_client.py).  A
   send is split at its blocking network calls.  The text that Python's
   exception message adds after "CONNECTION_ERROR: ", "ERROR: " and
   "HTTP push failed: " is left out. *)

E_NO_RESPONSE == << 78, 79, 95, 82, 69, 83, 80, 79, 78, 83, 69 >>  \* "NO_RESPONSE"
E_TIMEOUT == << 84, 73, 77, 69, 79, 85, 84 >>  \* "TIMEOUT"
E_CONNECTION_REFUSED == << 67, 79, 78, 78, 69, 67, 84, 73, 79, 78, 95, 82, 69, 70, 85, 83, 69, 68 >>  \* "CONNECTION_REFUSED"
E_CONNECTION_ERROR == << 67, 79, 78, 78, 69, 67, 84, 73, 79, 78, 95, 69, 82, 82, 79, 82, 58, 32 >>  \* "CONNECTION_ERROR: "
E_ERROR == << 69, 82, 82, 79, 82, 58, 32 >>  \* "ERROR: "
M_push_failed == << 72, 84, 84, 80, 32, 112, 117, 115, 104, 32, 102, 97, 105, 108, 101, 100, 58, 32 >>  \* "HTTP push failed: "
M_no_response == << 78, 111, 32, 114, 101, 115, 112, 111, 110, 115, 101, 32, 102, 114, 111, 109, 32, 100, 101, 118, 105, 99, 101 >>  \* "No response from device"

max_attempts == 2

\* {"status": "error", "message": text}
ErrorMessage(text) ==
  JDict(<< << K_status, JStr(S_error) >>, << K_message, JStr(text) >> >>)

\* {"status": "timeout", "message": "No response from device"}
TimeoutResult ==
  JDict(<< << K_status, JStr(S_timeout) >>, << K_message, JStr(M_no_response) >> >>)

\* str.strip() for the white space of ASCII
strip(str) ==
  IF \A i \in 1..Len(str) : IsSpace(str[i]) THEN <<>>
  ELSE SubSeq(str, SetMin({i \in 1..Len(str) : ~IsSpace(str[i])}),
              SetMax({i \in 1..Len(str) : ~IsSpace(str[i])}))

\* The envelopes with one more: the first with a digit of its signature
\* replaced
WithForged(items) ==
  Append(items,
         dumps_compact(DictSet(loads(items[1]).val, K_signature,
                               JStr(LastReplaced(DictGet(loads(items[1]).val,
                                                         K_signature).v)))))

\* The request id of an earlier command
OtherRequestId(request_id) ==
  RequestIds[CHOOSE i \in 1..Len(RequestIds) : RequestIds[i] # request_id]

\* The counter the device puts in the outer packet of its response
DeviceCounter == JInt(7)

\* The outer packet packet_json with the counter of the device added
WithCounter(packet_json) ==
  dumps_compact(DictSet(loads(packet_json).val, K_counter, DeviceCounter))

\* The device's responses after the command cmd: its response to cmd, whose
\* outer packet carries the device's counter, its response to another
\* request, and a response to cmd with status error
DeviceResponses(ck, hk, cmd) ==
  << WithCounter(create_response_packet(ck, hk, DeviceId, Response(cmd.request_id),
                                        cmd.timestamp, Nonces[2])),
     create_response_packet(ck, hk, DeviceId,
                            Response(OtherRequestId(cmd.request_id)),
                            cmd.timestamp, Nonces[2]),
     create_response_packet(ck, hk, DeviceId,
                            DictSet(Response(cmd.request_id), K_status, JStr(S_error)),
                            cmd.timestamp, Nonces[2]) >>

\* What the device's side may hand to the client after the command cmd: its
\* responses, a signed payload whose text is no JSON object, an envelope with
\* empty payload and signature, and an envelope with a wrong signature
DeviceEnvelopes(ck, hk, cmd) ==
  WithForged(
    DeviceResponses(ck, hk, cmd) \o
    << OuterPacket(ck, hk, DeviceId, << 53 >>, Nonces[2]),
       dumps_compact(JDict(<< << K_device_id, DeviceId >>,
                              << K_payload, JStr(<<>>) >>,
                              << K_signature, JStr(<<>>) >> >>)) >>)

\* What each of DeviceEnvelopes is
ReplyKinds ==
  << "response", "other request", "error response", "no object", "empty", "forged" >>

\* The engine's variables that a handler leaves alone
observedVars == << token, constructed, chacha_key, hmac_key, previous, invoked >>

\* The most messages the relay receives during one send
MaxMessages == 2

\* The places in Commands of the commands sent: one with parameters and one
\* whose inner packet is over 500 bytes
SentCommands == {3, Len(Commands)}

\* A send_command that leaves the socket as it is when it returns
Return_leaves_socket(result) ==
  /\ returned' = result
  /\ phase' = "done"
  /\ UNCHANGED sock_open

\* send_command has returned result
Return(result) ==
  /\ returned' = result
  /\ phase' = "done"
  /\ sock_open' = FALSE

\* The commands a handler sends: send_command passes data or {} on
Sent(c, i) == [Command(c, i) EXCEPT !.data = IF Truthy(@) THEN @ ELSE JDict(<<>>)]

\* What went wrong in a step of send_command: nothing, the timeout of the
\* socket (socket.timeout), a refused connection (ConnectionRefusedError) or
\* another OSError, lines 91-96 and 124
TcpFailure(step, how) ==
  CASE how = "ok" -> "none"
    [] how = "refused" -> "refused"
    [] how = "timeout" ->
         (CASE step = "connect" -> "connect timeout"
            [] step = "send" -> "send timeout"
            [] OTHER -> "recv timeout")
    [] OTHER ->
         (CASE step = "connect" -> "connect error"
            [] step = "send" -> "send error"
            [] OTHER -> "recv error")

\* socket.create_connection((ip, port), timeout), line 72
TcpConnect(c, i, how) ==
  /\ constructed = "yes" /\ transport = "tcp" /\ phase = "idle"
  /\ sending' = Sent(c, i)
  /\ CASE how = "ok" -> phase' = "connected" /\ sock_open' = TRUE /\ UNCHANGED returned
       [] how = "timeout" -> Return(ErrorResult(E_TIMEOUT))
       [] how = "refused" -> Return(ErrorResult(E_CONNECTION_REFUSED))
       [] OTHER -> Return(ErrorResult(E_CONNECTION_ERROR))
  /\ failed' = TcpFailure("connect", how)
  /\ UNCHANGED << observedVars, request_counter, awaited, pulls, transport,
                  inflight, replies, queue, pulled, streamVars >>

\* The bytes sendall writes for a packet: (packet + "\n").encode("utf-8"),
\* line 79; the packet text of json.dumps is ASCII
Wire(packet) == packet \o << 10 >>

\* create_command_packet and sock.sendall, lines 76-79
TcpSend(how) ==
  /\ transport = "tcp" /\ phase = "connected"
  /\ request_counter' = request_counter + 1
  /\ CASE how = "ok" ->
            /\ inflight' = Wire(CommandPacket(chacha_key, hmac_key, sending, Nonces[1]))
            /\ replies' = DeviceEnvelopes(chacha_key, hmac_key, sending)
            /\ phase' = "sent"
            /\ UNCHANGED << returned, sock_open >>
       [] how = "timeout" ->
            Return(ErrorResult(E_TIMEOUT)) /\ UNCHANGED << inflight, replies >>
       [] OTHER ->
            Return(ErrorResult(E_CONNECTION_ERROR)) /\ UNCHANGED << inflight, replies >>
  /\ failed' = TcpFailure("send", how)
  /\ UNCHANGED << observedVars, sending, awaited, pulls, transport, queue, pulled,
                  streamVars >>

\* What send_command makes of process_incoming_packet: its result, or the
\* exception turned into a result (lines 89, 97-98)
TcpResult(done) == IF done.raised THEN ErrorResult(E_ERROR) ELSE done.result

\* Lines 85-89 for the text response that _receive_response returned
TcpProcessed(response, done) ==
  /\ Return(IF response = <<>> THEN ErrorResult(E_NO_RESPONSE) ELSE TcpResult(done))
  /\ request_counter' = IF response # <<>> /\ done.counted THEN request_counter + 1
                        ELSE request_counter

TcpReceived(response) ==
  TcpProcessed(response,
               IF response = <<>> THEN Outcome(FALSE, JNull, "not called", FALSE, FALSE)
               ELSE process_incoming_packet(chacha_key, hmac_key, response))

\* _receive_response and what follows, lines 83-89: the bytes that arrived
\* before the timeout are none, white space, text that is no packet, or an
\* envelope of the device's side with its newline; or recv raises an OSError
TcpReceive(m) ==
  /\ transport = "tcp" /\ phase = "sent"
  /\ CASE m = 0 -> TcpReceived(<<>>)
       [] m = Len(replies) + 1 -> TcpReceived(strip(<< 32, 10 >>))
       [] m = Len(replies) + 2 -> TcpReceived(strip(<< 110, 111, 116, 32, 106, 115, 111, 110 >> \o << 10 >>))
       [] m = Len(replies) + 3 ->
            Return(ErrorResult(E_CONNECTION_ERROR)) /\ UNCHANGED request_counter
       [] OTHER -> TcpReceived(strip(replies[m] \o << 10 >>))
  /\ pulled' = IF m \in 1..Len(replies) THEN << m >> ELSE pulled
  /\ failed' = TcpFailure("recv", IF m = 0 THEN "timeout"
                                  ELSE IF m = Len(replies) + 3 THEN "error" ELSE "ok")
  /\ UNCHANGED << observedVars, sending, awaited, pulls, transport, inflight,
                  replies, queue, streamVars >>

\* full_packet of _poll_response, lines 239-244
FullPacket(device_id, msg) ==
  JDict(<< << K_device_id, device_id >>,
           << K_payload, DictGet(msg, K_payload) >>,
           << K_signature, DictGet(msg, K_signature) >>,
           << K_version, IF DictHas(msg, K_version) THEN DictGet(msg, K_version)
                         ELSE JStr(PROTOCOL_VERSION) >> >>)

\* A test that takes a decoded message of any status
Accepted_any_status(decrypted, request_id) ==
  /\ ~decrypted.raised
  /\ Truthy(decrypted.result)
  /\ (SameJson(DictGet(decrypted.result, K_request_id), request_id)
        \/ ~Truthy(request_id))

\* Lines 246-249: the decoded message is the response waited for
Accepted(decrypted, request_id) ==
  /\ ~decrypted.raised
  /\ Truthy(decrypted.result)
  /\ SameJson(DictGet(decrypted.result, K_status), JStr(S_success))
  /\ (SameJson(DictGet(decrypted.result, K_request_id), request_id)
        \/ ~Truthy(request_id))

\* How the loop over the messages of one pull ended: found (a message was
\* returned), result (that message decoded) and counted (the calls of
\* process_secure_packet that went through)
Scanned(found, result, counted) ==
  [found |-> found, result |-> result, counted |-> counted]

Counted(n, decrypted) == IF decrypted.counted THEN n + 1 ELSE n

\* Lines 231-251: the messages of one pull tested in order from place i on
RECURSIVE ScanMessages(_, _, _, _, _, _)
RECURSIVE ScanDecoded(_, _, _, _, _, _, _)
ScanMessages(ck, hk, messages, i, request_id, n) ==
  IF i > Len(messages) THEN Scanned(FALSE, JNull, n)
  ELSE IF ~(Truthy(DictGet(messages[i], K_payload))
              /\ Truthy(DictGet(messages[i], K_signature)))
  THEN ScanMessages(ck, hk, messages, i + 1, request_id, n)
  ELSE ScanDecoded(ck, hk, messages, i, request_id, n,
                   process_incoming_packet(ck, hk,
                                           dumps(FullPacket(DeviceId, messages[i]))))

ScanDecoded(ck, hk, messages, i, request_id, n, decrypted) ==
  IF Accepted(decrypted, request_id)
  THEN Scanned(TRUE, decrypted.result, Counted(n, decrypted))
  ELSE ScanMessages(ck, hk, messages, i + 1, request_id, Counted(n, decrypted))

\* for attempt in range(max_attempts), line 212: after n pulls one more follows
attempts_left_one_more(n) == n < max_attempts + 1

\* A poll loop that never runs out of attempts
attempts_left_always(n) == n >= 0

attempts_left(n) == n < max_attempts

\* Lines 157-161: the request id read back from the client's own packet
OwnRequestId(decrypted) ==
  IF decrypted.raised THEN JNull ELSE DictGet(decrypted.result, K_request_id)

\* Lines 152-190 for the packet created and what process_incoming_packet made
\* of it
HttpPushed(how, packet_json, decrypted) ==
  /\ awaited' = OwnRequestId(decrypted)
  /\ request_counter' = Counted(request_counter + 1, decrypted)
  /\ IF how = "ok"
     THEN /\ phase' = "pushed"
          /\ inflight' = packet_json
          /\ replies' = DeviceEnvelopes(chacha_key, hmac_key, sending')
          /\ UNCHANGED << returned, sock_open >>
     ELSE /\ Return(ErrorMessage(M_push_failed))
          /\ UNCHANGED << inflight, replies >>

HttpPushPacket(how, packet_json) ==
  HttpPushed(how, packet_json,
             process_incoming_packet(chacha_key, hmac_key, packet_json))

\* _send_http(command, data) up to the push, lines 152-190, for the command cmd
HttpPushOf(cmd, how) ==
  /\ sending' = cmd
  /\ HttpPushPacket(how, CommandPacket(chacha_key, hmac_key, cmd, Nonces[1]))
  /\ UNCHANGED << observedVars, transport, queue, streamVars >>

\* send_command with protocol "http": _send_http up to the push
HttpPush(c, i, how) ==
  /\ constructed = "yes" /\ transport = "http" /\ phase = "idle"
  /\ failed' = IF how = "ok" THEN "none" ELSE "push"
  /\ HttpPushOf(Sent(c, i), how)
  /\ UNCHANGED << pulls, pulled >>

\* The relay receives an envelope from the device's side for this client
RelayQueues(m) ==
  /\ transport \in {"http", "wss"} /\ phase = "pushed"
  /\ Len(queue) + Len(pulled) < MaxMessages
  /\ queue' = Append(queue, m)
  /\ UNCHANGED << engineVars, transport, phase, sending, awaited, pulls, sock_open,
                  returned, inflight, replies, pulled, failed, streamVars >>

\* The messages of the relay's answer to a pull
Messages(places) == [k \in 1..Len(places) |-> loads(replies[places[k]]).val]

\* One turn of the loop of _poll_response for the messages scanned
HttpPulled(scanned) ==
  /\ request_counter' = scanned.counted
  /\ IF scanned.found THEN Return(scanned.result)
     ELSE IF attempts_left(pulls + 1)
     THEN UNCHANGED << returned, phase, sock_open >>
     ELSE Return(TimeoutResult)

\* One pull of _poll_response, lines 212-258: the relay hands over what it
\* holds, or the request fails
HttpPull(how) ==
  /\ transport \in {"http", "wss"} /\ phase = "pushed"
  /\ attempts_left(pulls)
  /\ pulls' = pulls + 1
  /\ IF how = "ok"
     THEN /\ HttpPulled(ScanMessages(chacha_key, hmac_key, Messages(queue), 1,
                                     awaited, request_counter))
          /\ queue' = <<>>
          /\ pulled' = pulled \o queue
          /\ UNCHANGED failed
     ELSE /\ Return(TimeoutResult)
          /\ failed' = "pull"
          /\ UNCHANGED << request_counter, queue, pulled >>
  /\ UNCHANGED << observedVars, transport, sending, awaited, inflight, replies,
                  streamVars >>

InitSession ==
  /\ token \in {Tokens[2], Tokens[3]}
  /\ constructed = "no"
  /\ chacha_key = <<>>
  /\ hmac_key = <<>>
  /\ request_counter = 0
  /\ previous = NoCall
  /\ invoked = NoCall
  /\ transport \in {"tcp", "http"}
  /\ phase = "idle"
  /\ sending = 0
  /\ awaited = JNull
  /\ pulls = 0
  /\ sock_open = FALSE
  /\ returned = JNull
  /\ inflight = <<>>
  /\ replies = <<>>
  /\ queue = <<>>
  /\ pulled = <<>>
  /\ InitStream

Init == InitSession

Next ==
  \/ Construct
  \/ \E c \in SentCommands, i \in 1..Len(RequestIds),
        how \in {"ok", "timeout", "refused", "error"} : TcpConnect(c, i, how)
  \/ \E how \in {"ok", "timeout", "error"} : TcpSend(how)
  \/ \E m \in 0..(Len(ReplyKinds) + 3) : TcpReceive(m)
  \/ \E c \in SentCommands, i \in 1..Len(RequestIds), how \in {"ok", "error"} :
        HttpPush(c, i, how)
  \/ \E m \in 1..Len(ReplyKinds) : RelayQueues(m)
  \/ \E how \in {"ok", "error"} : HttpPull(how)

Spec == Init /\ [][Next]_vars

-----------------------------------------------------------------------------
(* Properties of the handlers, checked under Spec *)

\* send_command sent its command and returned a decoded response of the
\* device
DecodedResponse ==
  /\ phase = "done"
  /\ inflight # <<>>
  /\ returned.t = "dict"
  /\ SameJson(DictGet(returned, K_status), JStr(S_success))

\* C1: on every transport, if send issued a command whose inner envelope
\* carries request id R and returns a decoded device response, that
\* response's request_id equals R: a validly signed response with another
\* request_id is never returned.
C1_ResponseMatches ==
  (DecodedResponse /\ InnerBytes(sending) <= 500) =>
    SameJson(DictGet(returned, K_request_id), JStr(sending.request_id))

\* The envelope at place m of replies is a response that _poll_response waits
\* for: the response to this request, or any response when the client could
\* not read a request id back from its own packet
Matching(m) ==
  \/ ReplyKinds[m] = "response"
  \/ ~Truthy(awaited) /\ ReplyKinds[m] = "other request"

EndedEarly ==
  /\ transport = "http" /\ phase = "done" /\ inflight # <<>>
  /\ failed = "none" /\ pulls < max_attempts

FirstMatching == CHOOSE k \in 1..Len(pulled) :
                   Matching(pulled[k]) /\ \A j \in 1..(k - 1) : ~Matching(pulled[j])

\* The kinds of message on which process_secure_packet goes through
DecodedKinds == {"response", "other request", "error response", "no object"}

C12_FailureIsError ==
  (transport = "http" /\ phase = "done" /\ failed # "none") =>
    /\ SameJson(DictGet(returned, K_status), JStr(S_error))
    /\ DictHas(returned, K_message)
    /\ failed = "push" => pulls = 0

-----------------------------------------------------------------------------
(* CloudClient over the stream (handlers/cloud_client.py, _send_wss,
   _connect_wss, _wait_wss_response, _close_wss and close).  A message of
   the server is a record of its text, its kind and, for a response of the
   device, the number of the send it answers (else 0); the client looks at
   the text only. *)

K_type == << 116, 121, 112, 101 >>  \* "type"
K_delivered == << 100, 101, 108, 105, 118, 101, 114, 101, 100 >>  \* "delivered"
K_queued == << 113, 117, 101, 117, 101, 100 >>  \* "queued"
S_connected == << 99, 111, 110, 110, 101, 99, 116, 101, 100 >>  \* "connected"
S_queued == << 113, 117, 101, 117, 101, 100 >>  \* "queued"
S_QUEUED == << 81, 85, 69, 85, 69, 68 >>  \* "QUEUED"
S_DELIVERED == << 68, 69, 76, 73, 86, 69, 82, 69, 68 >>  \* "DELIVERED"
M_queued == << 68, 101, 118, 105, 99, 101, 32, 111, 102, 102, 108, 105, 110, 101, 44, 32, 99, 111, 109, 109, 97, 110, 100, 32, 113, 117, 101, 117, 101, 100 >>  \* "Device offline, command queued"
M_wss_send_failed == << 87, 83, 83, 32, 115, 101, 110, 100, 32, 102, 97, 105, 108, 101, 100, 58, 32 >>  \* "WSS send failed: "

\* Line 401: the values of "type" that the receive loop skips
SkippedTypes == { << 119, 101, 108, 99, 111, 109, 101 >>, << 115, 116, 97, 116, 117, 115 >>, << 112, 105, 110, 103 >>, << 112, 111, 110, 103 >>, << 97, 99, 107 >> }  \* "welcome", "status", "ping", "pong", "ack"

\* The server's own messages: a legacy welcome, the confirmation of the
\* connection, a refusal, the acknowledgement of a delivered command, the
\* acknowledgement of a queued one, and text that is no JSON
ServerTexts ==
  << << 123, 34, 116, 121, 112, 101, 34, 58, 34, 119, 101, 108, 99, 111, 109, 101, 34, 44, 34, 109, 101, 115, 115, 97, 103, 101, 34, 58, 34, 104, 105, 34, 125 >>,
     << 123, 34, 115, 116, 97, 116, 117, 115, 34, 58, 34, 99, 111, 110, 110, 101, 99, 116, 101, 100, 34, 125 >>,
     << 123, 34, 115, 116, 97, 116, 117, 115, 34, 58, 34, 101, 114, 114, 111, 114, 34, 44, 34, 101, 114, 114, 111, 114, 34, 58, 34, 65, 85, 84, 72, 95, 70, 65, 73, 76, 69, 68, 34, 125 >>,
     << 123, 34, 115, 116, 97, 116, 117, 115, 34, 58, 34, 115, 117, 99, 99, 101, 115, 115, 34, 44, 34, 100, 101, 108, 105, 118, 101, 114, 101, 100, 34, 58, 116, 114, 117, 101, 125 >>,
     << 123, 34, 115, 116, 97, 116, 117, 115, 34, 58, 34, 115, 117, 99, 99, 101, 115, 115, 34, 44, 34, 100, 101, 108, 105, 118, 101, 114, 101, 100, 34, 58, 102, 97, 108, 115, 101, 44, 34, 113, 117, 101, 117, 101, 100, 34, 58, 116, 114, 117, 101, 44, 34, 100, 101, 118, 105, 99, 101, 95, 105, 100, 34, 58, 34, 101, 115, 112, 49, 34, 125 >>,
     << 60, 104, 116, 109, 108, 62 >> >>

ServerKinds == << "welcome", "connected", "refused", "delivered", "queued", "garbage" >>

\* msg.get(key) == text, for a dict msg
GetIs(msg, key, text) == SameJson(DictGet(msg, key), JStr(text))

\* Lines 413-418: the result for an acknowledgement that says queued
QueuedResult(msg) ==
  JDict(<< << K_status, JStr(S_queued) >>,
           << K_message, IF DictHas(msg, K_message) THEN DictGet(msg, K_message)
                         ELSE JStr(M_queued) >>,
           << K_device_id, DictGet(msg, K_device_id) >> >>)

\* queued taken for false whatever the acknowledgement says
QueuedOf_never(msg) == JBool(FALSE)

\* msg.get("queued", not delivered), lines 409-410
QueuedOf(msg) ==
  IF DictHas(msg, K_queued) THEN DictGet(msg, K_queued)
  ELSE JBool(~Truthy(DictGet(msg, K_delivered)))

\* What one turn of the receive loop makes of a message: ends tells whether
\* _wait_wss_response returns, result what it returns, closes whether
\* _close_wss was called, and counted whether process_secure_packet went
\* through
Turn(ends, result, closes, counted) ==
  [ends |-> ends, result |-> result, closes |-> closes, counted |-> counted]

Skip == Turn(FALSE, JNull, FALSE, FALSE)

\* A loop that returns no decoded message
WaitDecoded_never(decrypted, request_id) == Turn(FALSE, JNull, FALSE, decrypted.counted)

\* Lines 436-451 for the message decoded
WaitDecoded(decrypted, request_id) ==
  IF Accepted(decrypted, request_id)
  THEN Turn(TRUE, decrypted.result, FALSE, decrypted.counted)
  ELSE Turn(FALSE, JNull, FALSE, decrypted.counted)

\* Lines 400-451 for a message that is a JSON object
WaitMessage(ck, hk, msg, request_id) ==
  IF \E text \in SkippedTypes : GetIs(msg, K_type, text) THEN Skip
  ELSE IF GetIs(msg, K_status, S_connected) THEN Skip
  ELSE IF GetIs(msg, K_status, S_success) /\ DictGet(msg, K_delivered).t # "null"
  THEN (IF Truthy(QueuedOf(msg)) THEN Turn(TRUE, QueuedResult(msg), FALSE, FALSE)
        ELSE Skip)
  ELSE IF GetIs(msg, K_status, S_QUEUED) \/ GetIs(msg, K_status, S_DELIVERED) THEN Skip
  ELSE IF Truthy(DictGet(msg, K_payload)) /\ Truthy(DictGet(msg, K_signature))
  THEN WaitDecoded(process_incoming_packet(ck, hk, dumps(FullPacket(DeviceId, msg))),
                   request_id)
  ELSE Skip

\* Lines 398-460 for the text raw that recv returned: json.loads raises on
\* text that is no JSON and msg.get on JSON that is no object, and the
\* handler of line 457 closes the link and leaves the loop
WaitParsed(ck, hk, parsed, request_id) ==
  IF ~parsed.ok \/ parsed.val.t # "dict" THEN Turn(TRUE, TimeoutResult, TRUE, FALSE)
  ELSE WaitMessage(ck, hk, parsed.val, request_id)

WaitReceived(ck, hk, raw, request_id) == WaitParsed(ck, hk, loads(raw), request_id)

\* Lines 352-377 of _connect_wss for the text that recv returned: "refuse"
\* when the message has status error, else "go on" (the except of line 375
\* swallows what json.loads or welcome_data.get raises)
WelcomeParsed(parsed) ==
  IF parsed.ok /\ parsed.val.t = "dict" /\ GetIs(parsed.val, K_status, S_error)
  THEN "refuse" ELSE "go on"

WelcomeReceived(welcome) == WelcomeParsed(loads(welcome))

\* The most sends on one CloudClient where the sends follow each other, and
\* the most messages the server sends to a client
MaxSends == 2
MaxStreamMessages == 2

\* The commands that the sends over the stream carry, as places in Commands
StreamCommands == {3}

\* The request id of the n-th send
StreamRequest(n) == ((n - 1) % Len(RequestIds)) + 1

\* A message of the server
Message(kind, to, text) == [kind |-> kind, to |-> to, text |-> text]

\* The places in ServerTexts of the messages the server sends while the
\* client connects, and while it waits for the response; and the places in
\* replies of the messages the relay receives after a fallback
WhileConnecting == {1, 3, 4}
WhileWaiting == {2, 4, 5, 6}
WhileFallback == {1, 2}

\* The messages the server may send: its own, and once the command is on the
\* link the device's responses and the response with a wrong signature
ServerMessages ==
  [k \in 1..Len(ServerTexts) |-> Message(ServerKinds[k], <<>>, ServerTexts[k])]

DeviceMessages ==
  IF phase = "waiting"
  THEN << Message("response", sending.request_id, replies[1]),
          Message("response", OtherRequestId(sending.request_id), replies[2]),
          Message("error response", sending.request_id, replies[3]),
          Message("forged", sending.request_id,
                  WithForged(replies)[Len(replies) + 1]) >>
  ELSE <<>>

\* What read and consumed keep of a message: its kind, the request it
\* answers and the number of the send that received it
Seen(m) == [kind |-> m.kind, to |-> m.to, send |-> sends]

\* What written keeps of a message sent with self._ws.send: the link, the
\* kind of message and the number of the send that wrote it
Wrote(kind) == [link |-> ws, kind |-> kind, send |-> sends]

\* self._ws.close() where _ws is set, lines 466-470
CloseLink == IF ws = 0 THEN links ELSE [links EXCEPT ![ws] = "closed"]

\* A close that leaves _ws set
close_wss_keeps_ws ==
  /\ links' = CloseLink
  /\ ws' = ws
  /\ inbox' = <<>>

\* _close_wss; what the server sent on the link and the client did not
\* receive is gone
close_wss ==
  /\ links' = CloseLink
  /\ ws' = 0
  /\ inbox' = <<>>

\* send_command with protocol "wss" up to _connect_wss, lines 272-277 and
\* 319, where at most so many sends are made
WssBegin(most) ==
  /\ constructed = "yes" /\ transport = "wss" /\ phase \in {"idle", "done"}
  /\ sends < most
  /\ sends' = sends + 1
  /\ \E c \in StreamCommands : sending' = Sent(c, StreamRequest(sends + 1))
  /\ phase' = IF ~ws_available THEN "fallback"
              ELSE IF ws # 0 THEN "ready" ELSE "connecting"
  /\ awaited' = JNull
  /\ returned' = JNull
  /\ inflight' = <<>>
  /\ failed' = "none"
  /\ pulls' = 0
  /\ queue' = <<>>
  /\ UNCHANGED << engineVars, transport, sock_open, replies, pulled, ws_available,
                  api_token, selectVars, ws, links, written, inbox, consumed, read >>

\* create_connection, lines 334-338, and the handler of line 384 when it raises
WssOpen(how) ==
  /\ phase = "connecting"
  /\ IF how = "ok"
     THEN /\ links' = Append(links, "open")
          /\ ws' = Len(links) + 1
          /\ phase' = IF api_token THEN "auth" ELSE "welcome"
          /\ UNCHANGED failed
     ELSE /\ ws' = 0
          /\ phase' = "fallback"
          /\ failed' = "open"
          /\ UNCHANGED links
  /\ inbox' = <<>>
  /\ UNCHANGED << engineVars, transport, sending, awaited, pulls, sock_open, returned,
                  inflight, replies, queue, pulled, ws_available, api_token, selectVars, written,
                  consumed, read, sends >>

\* The auth message, lines 341-347, and the handler of line 384 when send raises
WssAuth(how) ==
  /\ phase = "auth"
  /\ IF how = "ok"
     THEN /\ written' = Append(written, Wrote("auth"))
          /\ phase' = "welcome"
          /\ UNCHANGED << ws, failed >>
     ELSE /\ ws' = 0
          /\ phase' = "fallback"
          /\ failed' = "auth"
          /\ UNCHANGED written
  /\ UNCHANGED << engineVars, transport, sending, awaited, pulls, sock_open, returned,
                  inflight, replies, queue, pulled, ws_available, api_token, selectVars, links,
                  inbox, consumed, read, sends >>

\* A connect that goes on after a refusal
WssWelcomed_goes_on(verdict) ==
  /\ phase' = "ready"
  /\ inbox' = IF inbox = <<>> THEN inbox ELSE Tail(inbox)
  /\ failed' = IF verdict = "refuse" THEN "welcome" ELSE failed
  /\ UNCHANGED << ws, links >>

\* Lines 356-363 and 379-382 for what the welcome read made of its message
WssWelcomed(verdict) ==
  IF verdict = "refuse"
  THEN /\ close_wss
       /\ phase' = "fallback"
       /\ failed' = "welcome"
  ELSE /\ phase' = "ready"
       /\ inbox' = IF inbox = <<>> THEN inbox ELSE Tail(inbox)
       /\ UNCHANGED << ws, links, failed >>

\* The welcome read, lines 350-382: a message is there, or recv raises (no
\* message within 2 seconds, or any other exception, all swallowed at 375)
WssWelcome(how) ==
  /\ phase = "welcome"
  /\ IF how = "message"
     THEN /\ inbox # <<>>
          /\ WssWelcomed(WelcomeReceived(Head(inbox).text))
          /\ consumed' = Append(consumed, Seen(Head(inbox)))
     ELSE /\ inbox = <<>>
          /\ WssWelcomed("go on")
          /\ UNCHANGED consumed
  /\ UNCHANGED << engineVars, transport, sending, awaited, pulls, sock_open, returned,
                  inflight, replies, queue, pulled, ws_available, api_token, selectVars, written,
                  read, sends >>

\* Lines 281-309 for the packet created and what process_incoming_packet made
\* of it
WssTransmitted(how, packet_json, decrypted) ==
  /\ awaited' = OwnRequestId(decrypted)
  /\ request_counter' = Counted(request_counter + 1, decrypted)
  /\ IF how = "ok"
     THEN /\ written' = Append(written, Wrote("command"))
          /\ inflight' = packet_json
          /\ replies' = DeviceResponses(chacha_key, hmac_key, sending)
          /\ phase' = "waiting"
          /\ UNCHANGED << returned, sock_open, ws, links, inbox, failed >>
     ELSE /\ close_wss
          /\ Return(ErrorMessage(M_wss_send_failed))
          /\ failed' = "send"
          /\ UNCHANGED << written, inflight, replies >>

WssTransmitPacket(how, packet_json) ==
  WssTransmitted(how, packet_json,
                 process_incoming_packet(chacha_key, hmac_key, packet_json))

\* _send_wss once connected, lines 281-309
WssTransmit(how) ==
  /\ phase = "ready"
  /\ WssTransmitPacket(how, CommandPacket(chacha_key, hmac_key, sending, Nonces[1]))
  /\ UNCHANGED << observedVars, transport, sending, pulls, queue, pulled,
                  ws_available, api_token, selectVars, consumed, read, sends >>

\* One turn of the loop of _wait_wss_response for what it made of the message
WssTurned(turn) ==
  /\ request_counter' = IF turn.counted THEN request_counter + 1 ELSE request_counter
  /\ IF turn.ends THEN Return(turn.result)
     ELSE UNCHANGED << returned, phase, sock_open >>
  /\ IF turn.closes THEN close_wss
     ELSE inbox' = Tail(inbox) /\ UNCHANGED << ws, links >>

\* _wait_wss_response, lines 398-462: recv returns a message; or it raises
\* WebSocketTimeoutException; or it raises another exception; or the loop
\* ends because DEVICE_RESPONSE_TIMEOUT has passed
WssReceive(how) ==
  /\ phase = "waiting"
  /\ CASE how = "message" ->
            /\ inbox # <<>>
            /\ WssTurned(WaitReceived(chacha_key, hmac_key, Head(inbox).text, awaited))
            /\ read' = Append(read, Seen(Head(inbox)))
            /\ UNCHANGED failed
       [] how = "timeout" ->
            /\ inbox = <<>>
            /\ Return(TimeoutResult)
            /\ failed' = "recv timeout"
            /\ UNCHANGED << request_counter, ws, links, read, inbox >>
       [] how = "deadline" ->
            /\ read # <<>>
            /\ Return(TimeoutResult)
            /\ failed' = "deadline"
            /\ UNCHANGED << request_counter, ws, links, read, inbox >>
       [] OTHER ->
            /\ close_wss
            /\ Return(TimeoutResult)
            /\ failed' = "recv"
            /\ UNCHANGED << request_counter, read >>
  /\ UNCHANGED << observedVars, transport, sending, awaited, pulls, inflight, replies,
                  queue, pulled, ws_available, api_token, selectVars, written, consumed, sends >>

\* return self._send_http(command, data), lines 274 and 279
WssFallback(how) ==
  /\ transport = "wss" /\ phase = "fallback"
  /\ failed' = IF how = "ok" THEN failed ELSE "push"
  /\ HttpPushOf(sending, how)
  /\ UNCHANGED << pulls, pulled >>

\* CloudClient.close between two sends, lines 473-476
Close ==
  /\ transport = "wss" /\ phase = "done" /\ ws # 0
  /\ close_wss
  /\ UNCHANGED << engineVars, transport, phase, sending, awaited, pulls, sock_open,
                  returned, inflight, replies, queue, pulled, failed, ws_available,
                  api_token, selectVars, written, consumed, read, sends >>

\* The server sends a message on the link that the client is about to read
ServerSends(m) ==
  /\ transport = "wss" /\ phase \in {"welcome", "waiting"}
  /\ inbox = <<>>
  /\ Len(consumed) + Len(read) < MaxStreamMessages
  /\ inbox' = << m >>
  /\ UNCHANGED << engineVars, transport, phase, sending, awaited, pulls, sock_open,
                  returned, inflight, replies, queue, pulled, failed, ws_available,
                  api_token, selectVars, ws, links, written, consumed, read, sends >>

\* CloudClient(token, device_id, protocol="wss"), with the websocket module
\* there or not and an API token configured or not
InitStreamSession ==
  /\ token = Tokens[3]
  /\ constructed = "no"
  /\ chacha_key = <<>>
  /\ hmac_key = <<>>
  /\ request_counter = 0
  /\ previous = NoCall
  /\ invoked = NoCall
  /\ transport = "wss"
  /\ phase = "idle"
  /\ sending = 0
  /\ awaited = JNull
  /\ pulls = 0
  /\ sock_open = FALSE
  /\ returned = JNull
  /\ inflight = <<>>
  /\ replies = <<>>
  /\ queue = <<>>
  /\ pulled = <<>>
  /\ failed = "none"
  /\ ws_available \in BOOLEAN
  /\ api_token \in BOOLEAN
  /\ InitCaller
  /\ ws = 0
  /\ links = <<>>
  /\ written = <<>>
  /\ inbox = <<>>
  /\ consumed = <<>>
  /\ read = <<>>
  /\ sends = 0

NextStream ==
  \/ Construct
  \/ WssBegin(1)
  \/ \E how \in {"ok", "error"} : WssOpen(how)
  \/ \E how \in {"ok", "error"} : WssAuth(how)
  \/ \E how \in {"message", "timeout"} : WssWelcome(how)
  \/ \E how \in {"ok", "error"} : WssTransmit(how)
  \/ \E how \in {"message", "timeout", "deadline", "error"} : WssReceive(how)
  \/ \E how \in {"ok", "error"} : WssFallback(how)
  \/ \E m \in WhileFallback : RelayQueues(m)
  \/ \E how \in {"ok", "error"} : HttpPull(how)
  \/ Close
  \/ \E k \in (IF phase = "waiting" THEN WhileWaiting ELSE WhileConnecting) :
        ServerSends(ServerMessages[k])
  \/ \E k \in 1..Len(DeviceMessages) : ServerSends(DeviceMessages[k])

\* One send over the stream, with a server, a device and a relay that send
\* messages
SpecStream == InitStreamSession /\ [][NextStream]_vars

\* Sends that follow each other on one client, and close between them, where
\* the server sends nothing but a refusal and the relay holds no message
NextSession ==
  \/ Construct
  \/ WssBegin(MaxSends)
  \/ \E how \in {"ok", "error"} : WssOpen(how)
  \/ \E how \in {"ok", "error"} : WssAuth(how)
  \/ \E how \in {"message", "timeout"} : WssWelcome(how)
  \/ \E how \in {"ok", "error"} : WssTransmit(how)
  \/ \E how \in {"timeout", "error"} : WssReceive(how)
  \/ \E how \in {"ok", "error"} : WssFallback(how)
  \/ \E how \in {"ok", "error"} : HttpPull(how)
  \/ Close
  \/ phase = "welcome" /\ ServerSends(ServerMessages[3])

SpecSession == InitStreamSession /\ [][NextSession]_vars

-----------------------------------------------------------------------------
(* Properties of CloudClient over the stream, checked under SpecStream *)

\* The messages that the receive loop of the send under way received
ReadNow == SelectSeq(read, LAMBDA r : r.send = sends)

\* A validly signed message of the device whose decoded request_id is the
\* one of the command sent
Answers(r) == r.kind \in {"response", "error response"} /\ r.to = sending.request_id

\* send_command returned the decoded response of the device to its command
ReturnedPayload ==
  /\ phase = "done"
  /\ SameJson(DictGet(returned, K_request_id), JStr(sending.request_id))
  /\ SameJson(DictGet(returned, T_result), JStr(T_pong))

\* What send_command returned is none of the server's own messages
NoInterimResult ==
  phase = "done" =>
    /\ ~DictHas(returned, K_delivered)
    /\ ~DictHas(returned, K_type)
    /\ ~SameJson(DictGet(returned, K_status), JStr(S_connected))

C14_QueuedReturns ==
  \A k \in 1..Len(ReadNow) :
    ReadNow[k].kind = "queued" =>
      /\ k = Len(ReadNow)
      /\ phase = "done"
      /\ SameJson(DictGet(returned, K_status), JStr(S_queued))

\* The loop skipped the confirmation of the connection, read an
\* acknowledgement that says queued and returned status queued with the
\* device id of the acknowledgement
C14_Witness ==
  /\ Len(ReadNow) = 2
  /\ ReadNow[1].kind = "connected"
  /\ ReadNow[2].kind = "queued"
  /\ phase = "done"
  /\ returned = JDict(<< << K_status, JStr(S_queued) >>,
                         << K_message, JStr(M_queued) >>,
                         << K_device_id, DeviceId >> >>)

\* The link that the send under way used last is closed and _ws is None
LinkClosed == ws = 0 /\ links # <<>> /\ links[Len(links)] = "closed"

\* C15: over the stream a failure of the transport while the command is
\* written or while a response is read closes the session (the link is
\* closed and _ws is None) and the call returns a result of status error
\* that carries the detail in its error field.
C15_FailureClosesWithError ==
  (transport = "wss" /\ phase = "done" /\ failed \in {"send", "recv"}) =>
    /\ LinkClosed
    /\ SameJson(DictGet(returned, K_status), JStr(S_error))
    /\ DictHas(returned, K_error)

\* C16: a send that ends because a bounded wait timed out has closed the
\* resource before it returns: the socket of TCPHandler is closed, and over
\* the stream the link is closed and _ws is None.
C16_TimeoutCloses ==
  /\ (transport = "tcp" /\ phase = "done") => ~sock_open
  /\ (transport = "wss" /\ phase = "done" /\ failed \in {"recv timeout", "deadline"}) =>
       LinkClosed

\* The messages the send under way wrote on a link
WrittenNow == SelectSeq(written, LAMBDA w : w.send = sends)

\* The send under way goes, or went, through the relay instead of the stream
FellBack ==
  /\ transport = "wss" /\ sends > 0
  /\ \/ ~ws_available
     \/ failed \in {"open", "auth", "welcome"}
     \/ pulls > 0
     \/ phase \in {"fallback", "pushed"}

\* C17 as stated: a send on a session that is not connected tries to
\* connect, and if the streaming capability is missing or the connect fails
\* the command goes through the relay (push, then pull), the relay's result
\* is returned, and nothing is written to a stream link in that call.
C17_FallbackWritesNothing ==
  FellBack =>
    /\ WrittenNow = <<>>
    /\ phase \in {"fallback", "pushed", "done"}
    /\ (phase = "done" /\ pulls = 0) => returned = ErrorMessage(M_push_failed)

\* C17 amended: as stated, except that the auth message may have been
\* written to the link before the connect failed: no command is written to
\* a stream link in that call, and without the streaming capability nothing
\* is written and no link is opened.
C17_FallbackSendsNoCommand ==
  /\ FellBack =>
       /\ \A k \in 1..Len(WrittenNow) : WrittenNow[k].kind = "auth"
       /\ ws = 0
       /\ phase \in {"fallback", "pushed", "done"}
       /\ (phase = "done" /\ pulls = 0) => returned = ErrorMessage(M_push_failed)
       /\ (phase = "done" /\ pulls > 0) =>
            \/ returned = TimeoutResult
            \/ /\ SameJson(DictGet(returned, K_status), JStr(S_success))
               /\ SameJson(DictGet(returned, K_request_id), JStr(sending.request_id))
  /\ (transport = "wss" /\ ~ws_available) => written = <<>> /\ links = <<>>

\* The server refused the client after the auth message was written; the
\* command went through the relay, whose response was returned
C17_Witness ==
  /\ transport = "wss" /\ phase = "done" /\ failed = "welcome"
  /\ Len(WrittenNow) = 1 /\ WrittenNow[1].kind = "auth"
  /\ pulls = 1
  /\ SameJson(DictGet(returned, K_status), JStr(S_success))
  /\ SameJson(DictGet(returned, K_request_id), JStr(sending.request_id))

\* C18: after every failed connect attempt (the link cannot be opened, the
\* auth message cannot be sent, or the first message read has status error)
\* _ws is None and every link that the attempt opened has been closed.
C18_FailedConnectCloses ==
  (transport = "wss" /\ failed \in {"open", "auth", "welcome"}) =>
    /\ ws = 0
    /\ \A l \in 1..Len(links) : links[l] = "closed"

\* C19: during connect a first message that is neither an error, a status
\* connected message nor a legacy welcome is left for the receive loop:
\* _connect_wss consumes no other message.
C19_LeftUnconsumed ==
  \A k \in 1..Len(consumed) : consumed[k].kind \in {"refused", "connected", "welcome"}

-----------------------------------------------------------------------------
(* Properties of the session's state, checked under SpecSession *)

\* TransportSessionState read off the client: Connecting while
\* create_connection runs, AuthPending from then until the welcome read is
\* over, Connected while _ws is set after that, else Disconnected
SessionState ==
  IF phase = "connecting" THEN "Connecting"
  ELSE IF phase \in {"auth", "welcome"} THEN "AuthPending"
  ELSE IF ws # 0 THEN "Connected"
  ELSE "Disconnected"

\* Disconnected -> Connecting -> AuthPending -> Connected -> Disconnected
ChainEdges ==
  { << "Disconnected", "Connecting" >>, << "Connecting", "AuthPending" >>,
    << "AuthPending", "Connected" >>, << "Connected", "Disconnected" >> }

\* A connect attempt that fails goes back to Disconnected
FailureEdges ==
  { << "Connecting", "Disconnected" >>, << "AuthPending", "Disconnected" >> }

\* The command is written only on the open link of a Connected session, after
\* the auth message where an API token is configured
CommandWhenConnected ==
  (Len(written') > Len(written) /\ written'[Len(written')].kind = "command") =>
    /\ SessionState = "Connected"
    /\ written'[Len(written')].link = ws
    /\ links[ws] = "open"
    /\ api_token => \E k \in 1..Len(written) :
                      written[k].link = ws /\ written[k].kind = "auth"

\* A send finds the session Disconnected and opens a new link, or finds it
\* Connected and uses its link; a link that was closed stays closed
NewLinkWhenDisconnected ==
  /\ (phase \in {"idle", "done"} /\ phase' \notin {"idle", "done"}) =>
       IF ~ws_available THEN phase' = "fallback"
       ELSE IF ws = 0 THEN phase' = "connecting"
       ELSE phase' = "ready" /\ links[ws] = "open"
  /\ (ws' # 0 /\ ws' # ws) =>
       ws = 0 /\ ws' = Len(links) + 1 /\ Len(links') = ws' /\ links'[ws'] = "open"
  /\ \A l \in 1..Len(links) : links[l] = "closed" => links'[l] = "closed"

\* An explicit close leaves the session Disconnected, its link closed
CloseDisconnects ==
  (phase = "done" /\ phase' = "done" /\ ws # ws') =>
     ws' = 0 /\ links'[ws] = "closed" /\ SessionState' = "Disconnected"

-----------------------------------------------------------------------------
(* The direct session, checked under Spec *)

\* The bytes written on the socket are one envelope and its newline: no
\* newline before the last byte, and the text before it is a JSON object
\* with device_id, payload and signature
OneEnvelope(bytes) ==
  /\ Len(bytes) > 1
  /\ bytes[Len(bytes)] = 10
  /\ \A k \in 1..(Len(bytes) - 1) : bytes[k] # 10
  /\ IsEnvelope(loads(SubSeq(bytes, 1, Len(bytes) - 1)))
  /\ \A key \in {K_device_id, K_payload, K_signature} :
       DictHas(loads(SubSeq(bytes, 1, Len(bytes) - 1)).val, key)

\* C21: a send of the direct session opens one connection, which is open
\* exactly between the connect and the return, writes exactly one
\* newline-terminated envelope on it (nothing before the connect, nothing
\* after the write), and the connection is closed when send has returned,
\* whichever way it ended.
C21_OneConnectionClosed ==
  /\ [](transport = "tcp" =>
          /\ (sock_open <=> phase \in {"connected", "sent"})
          /\ (phase \in {"idle", "connected"} => inflight = <<>>)
          /\ (phase = "sent" => OneEnvelope(inflight))
          /\ (inflight # <<>> => OneEnvelope(inflight)))
  /\ [][transport = "tcp" =>
          /\ (sock_open' /\ ~sock_open => phase = "idle")
          /\ (inflight # <<>> => inflight' = inflight)]_vars

\* A direct send wrote its envelope, read a response of the device and
\* returned it with the socket closed
C21_Witness ==
  /\ transport = "tcp" /\ phase = "done" /\ ~sock_open
  /\ OneEnvelope(inflight)
  /\ returned.t = "dict"
  /\ SameJson(DictGet(returned, K_status), JStr(S_success))

\* C22: when the direct session has connected and sent its command and no
\* response arrives before the timeout, send fails with status error and
\* error TIMEOUT; a refused connection fails with CONNECTION_REFUSED, and any
\* other OS-level error with CONNECTION_ERROR and its detail.
C22_DirectFailures ==
  (transport = "tcp" /\ phase = "done") =>
    /\ failed = "recv timeout" => returned = ErrorResult(E_TIMEOUT)
    /\ failed = "refused" => returned = ErrorResult(E_CONNECTION_REFUSED)
    /\ failed \in {"connect error", "send error", "recv error"} =>
         /\ SameJson(DictGet(returned, K_status), JStr(S_error))
         /\ startswith(DictGet(returned, K_error).v, E_CONNECTION_ERROR)

\* The part of C22 that holds: a refused connection returns
\* CONNECTION_REFUSED, another OS-level error CONNECTION_ERROR with its
\* detail, a timeout of the connect or of the write TIMEOUT, and a wait for
\* the response that timed out NO_RESPONSE
DirectFailuresRead ==
  (transport = "tcp" /\ phase = "done") =>
    /\ failed = "recv timeout" => returned = ErrorResult(E_NO_RESPONSE)
    /\ failed \in {"connect timeout", "send timeout"} =>
         returned = ErrorResult(E_TIMEOUT)
    /\ failed = "refused" => returned = ErrorResult(E_CONNECTION_REFUSED)
    /\ failed \in {"connect error", "send error", "recv error"} =>
         /\ SameJson(DictGet(returned, K_status), JStr(S_error))
         /\ startswith(DictGet(returned, K_error).v, E_CONNECTION_ERROR)

-----------------------------------------------------------------------------
(* The choice of the handler in WakeLinkClient.run (wakelink.py, lines
   1141-1231), and the path CloudClient.send_command takes *)

DEFAULT_HTTP_URL == << 104, 116, 116, 112, 115, 58, 47, 47, 119, 97, 107, 101, 108, 105, 110, 107, 46, 100, 101, 97, 100, 98, 111, 105, 122, 120, 99, 46, 111, 114, 103 >>
DEFAULT_WSS_URL == << 119, 115, 115, 58, 47, 47, 119, 97, 107, 101, 108, 105, 110, 107, 46, 100, 101, 97, 100, 98, 111, 105, 122, 120, 99, 46, 111, 114, 103 >>
DEFAULT_PORT == 99

\* a or b of two strings
OrElse(a, b) == IF a # <<>> THEN a ELSE b

\* str.rstrip('/')
RECURSIVE rstrip_slash(_)
rstrip_slash(str) ==
  IF str # <<>> /\ str[Len(str)] = 47 THEN rstrip_slash(SubSeq(str, 1, Len(str) - 1))
  ELSE str

\* str.replace(old, new) for a non-empty old
RECURSIVE replace(_, _, _)
replace(str, old, new) ==
  IF Len(str) < Len(old) THEN str
  ELSE IF SubSeq(str, 1, Len(old)) = old
       THEN new \o replace(SubSeq(str, Len(old) + 1, Len(str)), old, new)
       ELSE << str[1] >> \o replace(Tail(str), old, new)

\* http_url and wss_url of run with the legacy field url taken in, lines
\* 1143-1152
StoredUrls(d) ==
  IF d.url # <<>> /\ d.http_url = <<>> /\ d.wss_url = <<>>
  THEN IF startswith(d.url, << 119, 115, 115, 58, 47, 47 >>) \/ startswith(d.url, << 119, 115, 58, 47, 47 >>)
       THEN [http_url |-> <<>>, wss_url |-> d.url]
       ELSE [http_url |-> d.url, wss_url |-> <<>>]
  ELSE [http_url |-> d.http_url, wss_url |-> d.wss_url]

\* run returns after it printed an error
Refused == [NoHandler EXCEPT !.printed = "error"]

\* A TCPHandler that always takes the default port
TCPHandlerOf_default_port(d) ==
  [NoHandler EXCEPT !.kind = "TCPHandler", !.ip = d.ip, !.port = DEFAULT_PORT]

\* TCPHandler(ip=dev["ip"], port=dev.get("port", DEFAULT_PORT)); a port of 0
\* stands for a description without the key port
TCPHandlerOf(d) ==
  [NoHandler EXCEPT !.kind = "TCPHandler", !.ip = d.ip,
                    !.port = IF d.port = 0 THEN DEFAULT_PORT ELSE d.port]

\* CloudClient.__init__, cloud_client.py lines 79-102, for a base_url that is
\* not empty
CloudClient(base_url, protocol, printed) ==
  [NoHandler EXCEPT
     !.kind = "CloudClient",
     !.protocol = IF protocol # <<>> THEN lower(protocol) ELSE << 119, 115, 115 >>,
     !.base_url = rstrip_slash(base_url),
     !.http_url =
        IF startswith(rstrip_slash(base_url), << 119, 115, 115, 58, 47, 47 >>)
        THEN replace(rstrip_slash(base_url), << 119, 115, 115, 58, 47, 47 >>, << 104, 116, 116, 112, 115, 58, 47, 47 >>)
        ELSE IF startswith(rstrip_slash(base_url), << 119, 115, 58, 47, 47 >>)
             THEN replace(rstrip_slash(base_url), << 119, 115, 58, 47, 47 >>, << 104, 116, 116, 112, 58, 47, 47 >>)
             ELSE rstrip_slash(base_url),
     !.wss_url =
        IF startswith(rstrip_slash(base_url), << 104, 116, 116, 112, 115, 58, 47, 47 >>)
        THEN replace(rstrip_slash(base_url), << 104, 116, 116, 112, 115, 58, 47, 47 >>, << 119, 115, 115, 58, 47, 47 >>)
        ELSE IF startswith(rstrip_slash(base_url), << 104, 116, 116, 112, 58, 47, 47 >>)
             THEN replace(rstrip_slash(base_url), << 104, 116, 116, 112, 58, 47, 47 >>, << 119, 115, 58, 47, 47 >>)
             ELSE rstrip_slash(base_url),
     !.printed = printed]

\* A choice that takes "wss" without the library for an error
Forced_wss_refused(d, urls, mode, available) ==
  CASE mode = "tcp" ->
         IF d.ip = <<>> THEN Refused ELSE TCPHandlerOf(d)
    [] mode = "http" ->
         CloudClient(OrElse(urls.http_url, DEFAULT_HTTP_URL), << 104, 116, 116, 112 >>, "nothing")
    [] mode = "wss" ->
         IF ~available THEN Refused
         ELSE CloudClient(OrElse(urls.wss_url, DEFAULT_WSS_URL), << 119, 115, 115 >>, "nothing")
    [] OTHER -> Refused

\* The branch of a mode given on the command line, lines 1160-1197
Forced(d, urls, mode, available) ==
  CASE mode = "tcp" ->
         IF d.ip = <<>> THEN Refused ELSE TCPHandlerOf(d)
    [] mode = "http" ->
         CloudClient(OrElse(urls.http_url, DEFAULT_HTTP_URL), << 104, 116, 116, 112 >>, "nothing")
    [] mode = "wss" ->
         IF ~available
         THEN CloudClient(OrElse(urls.http_url, DEFAULT_HTTP_URL), << 104, 116, 116, 112 >>, "warning")
         ELSE CloudClient(OrElse(urls.wss_url, DEFAULT_WSS_URL), << 119, 115, 115 >>, "nothing")
    [] OTHER -> Refused

\* The branch of the stored cloud URLs, lines 1198-1220, for the stored
\* protocol in lower case
Stored(urls, protocol, available) ==
  IF OrElse(protocol, << 104, 116, 116, 112 >>) = << 119, 115, 115 >> /\ ~available
  THEN CloudClient(OrElse(urls.http_url, DEFAULT_HTTP_URL), << 104, 116, 116, 112 >>, "warning")
  ELSE IF OrElse(protocol, << 104, 116, 116, 112 >>) = << 119, 115, 115 >>
       THEN CloudClient(OrElse(urls.wss_url, DEFAULT_WSS_URL), << 119, 115, 115 >>, "nothing")
       ELSE CloudClient(OrElse(urls.http_url, DEFAULT_HTTP_URL),
                        OrElse(protocol, << 104, 116, 116, 112 >>), "nothing")

\* The handler run builds for the description d and the mode of the command
\* line, lines 1141-1230
SelectHandler(d, mode, available) ==
  IF mode # "" THEN Forced(d, StoredUrls(d), mode, available)
  ELSE IF StoredUrls(d).http_url # <<>> \/ StoredUrls(d).wss_url # <<>>
       THEN Stored(StoredUrls(d), lower(d.protocol), available)
       ELSE IF d.ip = <<>> THEN Refused ELSE TCPHandlerOf(d)

\* The session a command goes over with handler h: the socket of TCPHandler,
\* or what CloudClient.send_command (lines 129-132) and the first test of
\* _send_wss (lines 272-274) choose
SessionOf(h, available) ==
  CASE h.kind = "TCPHandler" -> "DirectSession"
    [] h.kind = "CloudClient" ->
         IF h.protocol = << 104, 116, 116, 112 >> THEN "RelaySession"
         ELSE IF ~available THEN "RelaySession" ELSE "StreamSession"
    [] OTHER -> "none"

\* The handler of the model that stands for h: "wss" is CloudClient on its
\* way through _send_wss, which falls back to the relay by itself
TransportOf(h) ==
  CASE h.kind = "TCPHandler" -> "tcp"
    [] h.kind = "CloudClient" -> IF h.protocol = << 104, 116, 116, 112 >> THEN "http" ELSE "wss"
    [] OTHER -> "none"

\* The values stored in a device description
StoredIps == { <<>>, << 49, 48, 46, 48, 46, 48, 46, 55 >> }
StoredPorts == { 0, 8099 }
StoredHttpUrls == { <<>>, << 104, 116, 116, 112, 115, 58, 47, 47, 104, 46, 101, 120, 97, 109, 112, 108, 101, 47 >> }
StoredWssUrls == { <<>>, << 119, 115, 115, 58, 47, 47, 119, 46, 101, 120, 97, 109, 112, 108, 101 >> }
StoredLegacyUrls == { <<>>, << 119, 115, 58, 47, 47, 108, 46, 101, 120, 97, 109, 112, 108, 101 >>, << 104, 116, 116, 112, 58, 47, 47, 108, 46, 101, 120, 97, 109, 112, 108, 101 >> }
StoredProtocols == { <<>>, << 104, 116, 116, 112 >>, << 119, 115, 115 >>, << 87, 83, 83 >>, << 116, 99, 112 >> }
Modes == { "", "tcp", "http", "wss", "udp" }

Devices ==
  [ip : StoredIps, port : StoredPorts, http_url : StoredHttpUrls,
   wss_url : StoredWssUrls, url : StoredLegacyUrls, protocol : StoredProtocols]

\* run is called for a stored device with a token that the handlers take,
\* and nothing is built yet
InitSelect ==
  /\ token = Tokens[3]
  /\ constructed = "no"
  /\ chacha_key = <<>>
  /\ hmac_key = <<>>
  /\ request_counter = 0
  /\ previous = NoCall
  /\ invoked = NoCall
  /\ transport = "none"
  /\ phase = "idle"
  /\ sending = 0
  /\ awaited = JNull
  /\ pulls = 0
  /\ sock_open = FALSE
  /\ returned = JNull
  /\ inflight = <<>>
  /\ replies = <<>>
  /\ queue = <<>>
  /\ pulled = <<>>
  /\ failed = "none"
  /\ ws_available \in BOOLEAN
  /\ api_token = FALSE
  /\ ws = 0
  /\ links = <<>>
  /\ written = <<>>
  /\ inbox = <<>>
  /\ consumed = <<>>
  /\ read = <<>>
  /\ sends = 0
  /\ dev \in Devices
  /\ mode_override \in Modes
  /\ handler = NoHandler
  /\ calls = <<>>

\* run up to line 1231: the handler is built, or an error is printed and run
\* returns
Select ==
  /\ handler = NoHandler
  /\ handler' = SelectHandler(dev, mode_override, ws_available)
  /\ UNCHANGED << engineVars, transport, phase, sending, awaited, pulls, sock_open,
                  returned, inflight, replies, queue, pulled, failed, ws_available,
                  api_token, ws, links, written, inbox, consumed, read, sends, dev,
                  mode_override, calls >>

\* The command of the command line is given to the handler, lines 1234-1283
Execute ==
  /\ handler.kind # "none"
  /\ transport = "none"
  /\ transport' = TransportOf(handler)
  /\ UNCHANGED << engineVars, phase, sending, awaited, pulls, sock_open, returned,
                  inflight, replies, queue, pulled, failed, streamVars >>

NextSelect == Select \/ Execute

SpecSelect == InitSelect /\ [][NextSelect]_vars

-----------------------------------------------------------------------------
(* Properties of the choice of the handler, checked under SpecSelect *)

\* run has chosen: it built a handler or printed its error
Selected == handler # NoHandler

\* Nothing was sent or opened on any transport
NoIO ==
  /\ transport = "none"
  /\ ~sock_open
  /\ inflight = <<>>
  /\ links = <<>>
  /\ written = <<>>

\* The description holds a cloud URL: http_url, wss_url or the legacy url
HasCloudUrl(d) == d.http_url # <<>> \/ d.wss_url # <<>> \/ d.url # <<>>

\* C23: with the mode "tcp" on the command line, a description without an IP
\* makes the choice fail at once, with no handler built and no network I/O;
\* a description with an IP gives a TCPHandler to that IP and the stored port
\* (99 when none is stored), whatever cloud URLs and protocol are stored.
C23_ForcedTcp ==
  (mode_override = "tcp" /\ Selected) =>
    IF dev.ip = <<>>
    THEN handler.kind = "none" /\ handler.printed = "error" /\ NoIO
    ELSE /\ handler.kind = "TCPHandler"
         /\ handler.ip = dev.ip
         /\ handler.port = (IF dev.port = 0 THEN 99 ELSE dev.port)
         /\ SessionOf(handler, ws_available) = "DirectSession"
         /\ transport \in {"none", "tcp"}

\* The mode "tcp" was given for a device with an IP, a port of its own, cloud
\* URLs and the protocol wss stored, and the command went to the TCPHandler
C23_Witness ==
  /\ mode_override = "tcp" /\ Selected
  /\ dev.ip # <<>> /\ dev.port # 0
  /\ dev.http_url # <<>> /\ dev.wss_url # <<>> /\ dev.protocol = << 119, 115, 115 >>
  /\ ws_available
  /\ handler.port = dev.port
  /\ transport = "tcp"

\* C24: with the mode "wss" on the command line and the websocket library
\* missing, run builds a CloudClient with protocol http on the HTTP URL and
\* prints a warning, never an error, and the command goes over the relay;
\* with the library it builds a CloudClient whose command goes over the
\* stream.
C24_ForcedWss ==
  (mode_override = "wss" /\ Selected) =>
    IF ~ws_available
    THEN /\ handler.kind = "CloudClient"
         /\ handler.printed = "warning"
         /\ handler.protocol = << 104, 116, 116, 112 >>
         /\ handler.base_url \in
              { rstrip_slash(dev.http_url), dev.url, DEFAULT_HTTP_URL }
         /\ startswith(handler.base_url, << 104, 116, 116, 112 >>)
         /\ handler.http_url = handler.base_url
         /\ SessionOf(handler, ws_available) = "RelaySession"
         /\ transport \in {"none", "http"}
    ELSE /\ handler.kind = "CloudClient"
         /\ handler.printed = "nothing"
         /\ startswith(handler.wss_url, << 119, 115 >>)
         /\ SessionOf(handler, ws_available) = "StreamSession"
         /\ transport \in {"none", "wss"}

\* The mode "wss" was given without the library for a device that stores
\* only a wss URL and the protocol wss, and the command went to the relay at
\* the default HTTP URL
C24_Witness ==
  /\ mode_override = "wss" /\ Selected /\ ~ws_available
  /\ dev.http_url = <<>> /\ dev.wss_url # <<>> /\ dev.protocol = << 119, 115, 115 >>
  /\ handler.base_url = DEFAULT_HTTP_URL
  /\ handler.printed = "warning"
  /\ transport = "http"

\* C25: without a mode on the command line: if the description holds cloud
\* URLs, the command goes over the stream only when the stored protocol is
\* "wss" and the library is there, and over the relay in every other case;
\* without a cloud URL the TCPHandler is used when an IP is stored, and else
\* the choice fails without I/O.
C25_StoredChoice ==
  (mode_override = "" /\ Selected) =>
    IF HasCloudUrl(dev)
    THEN /\ SessionOf(handler, ws_available) \in {"StreamSession", "RelaySession"}
         /\ SessionOf(handler, ws_available) = "StreamSession" <=>
              (dev.protocol = << 119, 115, 115 >> /\ ws_available)
    ELSE IF dev.ip # <<>>
         THEN SessionOf(handler, ws_available) = "DirectSession"
         ELSE handler.kind = "none" /\ handler.printed = "error" /\ NoIO

\* The part of C25 that holds: the stream is used when the library is there
\* and the stored protocol is anything but empty or "http" in any case of
\* letters
StoredChoiceRead ==
  (mode_override = "" /\ Selected) =>
    IF HasCloudUrl(dev)
    THEN /\ SessionOf(handler, ws_available) \in {"StreamSession", "RelaySession"}
         /\ SessionOf(handler, ws_available) = "StreamSession" <=>
              (lower(dev.protocol) \notin { <<>>, << 104, 116, 116, 112 >> } /\ ws_available)
    ELSE IF dev.ip # <<>>
         THEN SessionOf(handler, ws_available) = "DirectSession"
         ELSE handler.kind = "none" /\ handler.printed = "error" /\ NoIO

-----------------------------------------------------------------------------
(* Two clients that send to one device over the relay at the same time
   (cloud_client.py, _send_http and _poll_response): each has its own
   CloudClient with the token of the device, and the relay keeps one queue
   of messages to_client for the device_id, which a pull empties *)

\* The clients: client k draws the request id RequestIds[k]
Callers == 1..Len(RequestIds)

\* The send of a client before it began
IdleCall ==
  [phase |-> "idle", awaited |-> JNull, pulls |-> 0, pulled |-> <<>>,
   returned |-> JNull, request_counter |-> 0]

\* The device has answered the command of client k: its response waits at
\* the relay or was handed to a client
Answered(k) ==
  \/ \E i \in 1..Len(queue) : queue[i] = k
  \/ \E j \in Callers : \E i \in 1..Len(calls[j].pulled) : calls[j].pulled[i] = k

InitPair ==
  /\ token = Tokens[3]
  /\ constructed = "no"
  /\ chacha_key = <<>>
  /\ hmac_key = <<>>
  /\ request_counter = 0
  /\ previous = NoCall
  /\ invoked = NoCall
  /\ transport = "http"
  /\ phase = "idle"
  /\ sending = 0
  /\ awaited = JNull
  /\ pulls = 0
  /\ sock_open = FALSE
  /\ returned = JNull
  /\ inflight = <<>>
  /\ replies = [k \in Callers |-> <<>>]
  /\ queue = <<>>
  /\ pulled = <<>>
  /\ failed = "none"
  /\ ws_available = FALSE
  /\ api_token = FALSE
  /\ ws = 0
  /\ links = <<>>
  /\ written = <<>>
  /\ inbox = <<>>
  /\ consumed = <<>>
  /\ read = <<>>
  /\ sends = 0
  /\ dev = NoDevice
  /\ mode_override = ""
  /\ handler = NoHandler
  /\ calls = [k \in Callers |-> IdleCall]

\* Lines 152-194 of _send_http for client k, whose push goes through: the
\* packet created and what process_incoming_packet made of it; response is
\* the envelope the device will answer with
PairPushed(k, decrypted, response) ==
  /\ calls' = [calls EXCEPT ![k] =
                 [@ EXCEPT !.phase = "pushed",
                           !.awaited = OwnRequestId(decrypted),
                           !.request_counter = Counted(@ + 1, decrypted)]]
  /\ replies' = [replies EXCEPT ![k] = response]

\* _send_http of client k up to the push
PairPush(k) ==
  /\ constructed = "yes" /\ calls # <<>> /\ calls[k].phase = "idle"
  /\ PairPushed(k,
                process_incoming_packet(
                  chacha_key, hmac_key,
                  CommandPacket(chacha_key, hmac_key, Sent(3, k), Nonces[1])),
                create_response_packet(chacha_key, hmac_key, DeviceId,
                                       Response(RequestIds[k]), Timestamps[1],
                                       Nonces[2]))
  /\ UNCHANGED << engineVars, transport, phase, sending, awaited, pulls, sock_open,
                  returned, inflight, queue, pulled, failed, ws_available,
                  api_token, ws, links, written, inbox, consumed, read, sends, dev,
                  mode_override, handler >>

\* The device answers the command of client k while a pull of k is still to
\* come, and the relay queues the response
PairAnswer(k) ==
  /\ calls # <<>> /\ calls[k].phase = "pushed"
  /\ attempts_left(calls[k].pulls)
  /\ ~Answered(k)
  /\ queue' = Append(queue, k)
  /\ UNCHANGED << engineVars, transport, phase, sending, awaited, pulls, sock_open,
                  returned, inflight, replies, pulled, failed, streamVars >>

\* One turn of the loop of _poll_response of client k for the messages
\* scanned, lines 212-258
PairPulled(k, scanned) ==
  calls' = [calls EXCEPT ![k] =
              [@ EXCEPT !.pulls = @ + 1,
                        !.pulled = @ \o queue,
                        !.request_counter = scanned.counted,
                        !.phase = IF scanned.found \/ ~attempts_left(calls[k].pulls + 1)
                                  THEN "done" ELSE "pushed",
                        !.returned = IF scanned.found THEN scanned.result
                                     ELSE IF attempts_left(calls[k].pulls + 1) THEN @
                                     ELSE TimeoutResult]]

\* One pull of client k that goes through: the relay hands over all it holds
\* for the device
PairPull(k) ==
  /\ calls # <<>> /\ calls[k].phase = "pushed"
  /\ attempts_left(calls[k].pulls)
  /\ PairPulled(k, ScanMessages(chacha_key, hmac_key, Messages(queue), 1,
                                calls[k].awaited, calls[k].request_counter))
  /\ queue' = <<>>
  /\ UNCHANGED << engineVars, transport, phase, sending, awaited, pulls, sock_open,
                  returned, inflight, replies, pulled, failed, ws_available,
                  api_token, ws, links, written, inbox, consumed, read, sends, dev,
                  mode_override, handler >>

NextPair ==
  \/ Construct
  \/ \E k \in Callers : PairPush(k)
  \/ \E k \in Callers : PairAnswer(k)
  \/ \E k \in Callers : PairPull(k)

SpecPair == InitPair /\ [][NextPair]_vars

\* Client k got the response to its own command
OwnResponse(k) ==
  /\ calls[k].returned.t = "dict"
  /\ SameJson(DictGet(calls[k].returned, K_status), JStr(S_success))
  /\ SameJson(DictGet(calls[k].returned, K_request_id), JStr(RequestIds[k]))

\* C26: when two clients send to the same device over the relay at the same
\* time and the device answers both while each still has a pull to come,
\* each send returns the response to its own command: no response is lost to
\* the pull of the other client.
C26_BothAnswered ==
  (\A k \in Callers : calls[k].phase = "done" /\ Answered(k)) =>
    \A k \in Callers : OwnResponse(k)

\* Both clients got their own responses
PairServed ==
  \A k \in Callers : calls[k].phase = "done" /\ OwnResponse(k)

-----------------------------------------------------------------------------
(* The counter of the device's outer packet, checked under Spec *)

\* send_command returned the decoded response to its command, which the
\* device sent in an outer packet with its counter
ReturnedCounted ==
  /\ DecodedResponse
  /\ SameJson(DictGet(returned, K_request_id), JStr(sending.request_id))

\* C27: when the device's outer packet carries a counter and decodes, the
\* result that send_command returns contains that counter, whatever the
\* transport.
C27_CounterReturned ==
  ReturnedCounted =>
    /\ DictHas(returned, K_counter)
    /\ SameJson(DictGet(returned, K_counter), DeviceCounter)

\* The part of C27 that holds: TCPHandler returns the counter
DirectCounterReturned ==
  (transport = "tcp" /\ ReturnedCounted) =>
    /\ DictHas(returned, K_counter)
    /\ SameJson(DictGet(returned, K_counter), DeviceCounter)

\* Over the relay the decoded response never holds the counter
RelayCounterDropped ==
  (transport = "http" /\ ReturnedCounted) => ~DictHas(returned, K_counter)

-----------------------------------------------------------------------------
(* What the result of process_incoming_packet depends on, checked under
   SpecPacket *)

\* The envelope outer reduced to what the result may depend on: its payload,
\* its signature and its counter, under the device_id of this side
Essence(outer) ==
  JDict(<< << K_device_id, DeviceId >>,
           << K_payload, DictGet(outer, K_payload) >>,
           << K_signature, DictGet(outer, K_signature) >> >>
        \o (IF DictHas(outer, K_counter)
            THEN << << K_counter, DictGet(outer, K_counter) >> >> ELSE <<>>))

\* process_incoming_packet was called on the text of an envelope with
\* device_id, payload and signature
ProcessedEnvelope ==
  /\ invoked.op = "process_incoming_packet"
  /\ IsEnvelope(loads(invoked.arg))
  /\ \A key \in {K_device_id, K_payload, K_signature} :
       DictHas(loads(invoked.arg).val, key)

\* C28: the result of process_incoming_packet on an envelope with device_id,
\* payload and signature depends on payload, signature and counter only: the
\* envelope with another device_id, another or no version, or one more field
\* gives the same verification outcome and the same result as the envelope
\* reduced to these.
C28_OnlyPayloadSignatureCounter ==
  ProcessedEnvelope =>
    invoked.ret = process_incoming_packet(chacha_key, hmac_key,
                                          dumps_compact(Essence(loads(invoked.arg).val)))

\* An envelope with a device_id that is not a string and without version was
\* verified and decoded
C28_Witness ==
  /\ ProcessedEnvelope
  /\ DictGet(loads(invoked.arg).val, K_device_id).t = "int"
  /\ ~DictHas(loads(invoked.arg).val, K_version)
  /\ invoked.ret.verified = "true"
  /\ ~invoked.ret.raised
  /\ SameJson(DictGet(invoked.ret.result, K_status), JStr(S_success))

-----------------------------------------------------------------------------
(* The nonce of process_secure_packet, checked under SpecCrypto *)

\* The bytes p are a well-formed payload block: the declared length is at
\* most 500 and p holds the two length bytes, the ciphertext and 16 bytes of
\* nonce material
WellFormedBlock(p) ==
  /\ Len(p) >= MinPacket
  /\ UnpackH(p) <= MaxPlaintext
  /\ Len(p) >= UnpackH(p) + MinPacket

\* The text that the ciphertext of p decrypts to with the first 12 of the 16
\* bytes that follow the ciphertext as the nonce
TextOfBlock(p) ==
  utf8_decode_ignore(
    chacha20_encrypt(chacha_key, SubSeq(p, 3 + UnpackH(p), 14 + UnpackH(p)),
                     SubSeq(p, 3, 2 + UnpackH(p))))

\* C29: for every well-formed payload block, the nonce that
\* process_secure_packet uses is the first 12 bytes of the 16 bytes that
\* directly follow the ciphertext, so that the returned text does not depend
\* on the last 4 bytes of the nonce material.
C29_NonceFollowsCipher ==
  (DecodablePayload /\ WellFormedBlock(fromhex(invoked.arg).bytes)) =>
    invoked.ret = TextOfBlock(fromhex(invoked.arg).bytes)

\* The part of C29 that holds: for a block of exactly the declared length
\* plus 18 bytes
ExactBlockNonce ==
  (DecodablePayload /\ WellFormedBlock(fromhex(invoked.arg).bytes)
     /\ Len(fromhex(invoked.arg).bytes) = UnpackH(fromhex(invoked.arg).bytes) + MinPacket) =>
    invoked.ret = TextOfBlock(fromhex(invoked.arg).bytes)

\* A created packet whose last four bytes were replaced decrypted to the
\* plaintext it was made of
LastFourIgnored ==
  /\ invoked.op = "process_secure_packet"
  /\ previous.op = "create_secure_response"
  /\ invoked.arg # previous.ret
  /\ Len(invoked.arg) = Len(previous.ret)
  /\ SubSeq(invoked.arg, 1, Len(invoked.arg) - 8) = SubSeq(previous.ret, 1, Len(previous.ret) - 8)
  /\ previous.arg # <<>>
  /\ invoked.ret = previous.arg

-----------------------------------------------------------------------------
(* The payloads of create_secure_response, checked under SpecCrypto *)

\* The bytes p are the payload made of the text plaintext with the random
\* bytes full_nonce: the declared length is the smaller of 500 and the number
\* of bytes of the text in UTF-8, p holds that many bytes more than 18, they
\* are the first bytes of the text encrypted, and the size checks of
\* process_secure_packet pass
WellFormedPayload(p, encoded, full_nonce) ==
  /\ UnpackH(p) = Min(Len(encoded), 500)
  /\ UnpackH(p) <= 500
  /\ Len(p) = UnpackH(p) + 18
  /\ chacha20_encrypt(chacha_key, SubSeq(full_nonce, 1, 12),
                      SubSeq(p, 3, 2 + UnpackH(p)))
       = SubSeq(encoded, 1, Min(Len(encoded), 500))
  /\ SubSeq(p, Len(p) - 15, Len(p)) = full_nonce
  /\ Len(p) >= 18 /\ ~BadSize(p)

\* C30: every payload that create_secure_response produces is well-formed:
\* its declared length is min(number of UTF-8 bytes of the input, 500), its
\* byte count is the declared length plus 18, an input of more than 500 bytes
\* is cut to its first 500 bytes without an error, and process_secure_packet
\* on it passes the TOO_SHORT and INVALID_SIZE checks.
C30_CreatedWellFormed ==
  /\ invoked.op = "create_secure_response" =>
       /\ fromhex(invoked.ret).ok
       /\ WellFormedPayload(fromhex(invoked.ret).bytes, utf8_encode(invoked.arg),
                            invoked.arg2)
  /\ RoundTripped =>
       /\ request_counter = invoked.counter_before + 1
       /\ invoked.ret = utf8_decode_ignore(Truncated(utf8_encode(previous.arg)))

\* A text of 501 bytes, whose last character takes two bytes, gave a payload
\* that declares 500 bytes, and process_secure_packet took it
C30_Witness ==
  /\ RoundTripped
  /\ Len(utf8_encode(previous.arg)) = 501
  /\ UnpackH(fromhex(previous.ret).bytes) = 500
  /\ Len(fromhex(previous.ret).bytes) = 518
  /\ request_counter = invoked.counter_before + 1

-----------------------------------------------------------------------------
(* The keys of an engine over its lifetime, checked under SpecCrypto *)

\* The first 32 bytes of the hash of the secret
MasterKeyOf(tok) == SubSeq(sha256(utf8_encode(tok)), 1, 32)

-----------------------------------------------------------------------------
(* The hash and the cipher against published vectors, checked under
   SpecCrypto *)

\* The number of 64-byte blocks that hold n bytes, the byte 0x80 and the
\* 8-byte length
PaddedBlocks(n) == (n + 9 + 63) \div 64

\* padded is data, then 0x80, then zero bytes up to a whole number of blocks
\* less 8 bytes, then the bit length of data as a 64-bit big-endian number
WellPadded(data, padded) ==
  /\ Len(padded) = 64 * PaddedBlocks(Len(data))
  /\ SubSeq(padded, 1, Len(data)) = data
  /\ padded[Len(data) + 1] = 128
  /\ \A i \in (Len(data) + 2)..(Len(padded) - 8) : padded[i] = 0
  /\ \A i \in (Len(padded) - 7)..(Len(padded) - 4) : padded[i] = 0
  /\ padded[Len(padded) - 3] * 16777216 + padded[Len(padded) - 2] * 65536
       + padded[Len(padded) - 1] * 256 + padded[Len(padded)] = 8 * Len(data)

\* C32: _sha256 returns the standard's digest for the empty input, for "abc"
\* and for inputs of 55, 56 and 64 bytes, and pads each of them with 0x80,
\* zero bytes and the 64-bit big-endian bit length to one block (up to 55
\* bytes) or two blocks (56 and 64 bytes)
C32_ReferenceDigests ==
  invoked.op = "_sha256" =>
    /\ \E m \in 1..Len(HashInputs) :
         /\ HashInputs[m] = invoked.arg
         /\ invoked.ret = HashDigests[m]
    /\ WellPadded(invoked.arg, sha256_pad(invoked.arg))
    /\ Len(sha256_pad(invoked.arg)) = IF Len(invoked.arg) <= 55 THEN 64 ELSE 128

\* The 56-byte input, the shortest whose padding needs a second block, was
\* hashed to its standard digest
C32_Witness ==
  /\ invoked.op = "_sha256"
  /\ Len(invoked.arg) = 56
  /\ Len(sha256_pad(invoked.arg)) = 128
  /\ invoked.ret = HashDigests[4]

\* The keystream blocks of counters 0 .. n-1, one after the other
RECURSIVE BlocksFromZero(_, _, _)
BlocksFromZero(key, nonce, n) ==
  IF n = 0 THEN <<>>
  ELSE BlocksFromZero(key, nonce, n - 1) \o chacha20_block(key, nonce, n - 1)

\* C33: _chacha20_block returns the published keystream block for the
\* published key, nonce and counter; _chacha20_encrypt xors its input with
\* the blocks of counters 0, 1, 2, ... in this order; and applying it to its
\* own output with the same key and nonce returns the input
C33_ReferenceKeystream ==
  /\ invoked.op = "_chacha20_block" =>
       \E m \in 1..Len(BlockVectors) :
         /\ invoked.arg = BlockVectors[m].key
         /\ invoked.arg2 = BlockVectors[m].nonce \o << BlockVectors[m].counter >>
         /\ invoked.ret = BlockVectors[m].block
  /\ invoked.op = "_chacha20_encrypt" =>
       invoked.ret =
         XorBytes(invoked.arg,
                  BlocksFromZero(chacha_key, invoked.arg2,
                                 (Len(invoked.arg) + 63) \div 64))
  /\ (invoked.op = "_chacha20_encrypt" /\ previous.op = "_chacha20_encrypt") =>
       invoked.ret = previous.arg

\* An input of 130 bytes, three keystream blocks, was encrypted and the
\* second application returned it
C33_Witness ==
  /\ invoked.op = "_chacha20_encrypt"
  /\ previous.op = "_chacha20_encrypt"
  /\ Len(previous.arg) = 130
  /\ previous.ret # previous.arg
  /\ invoked.ret = previous.arg

\* A published block vector was computed
BlockVectorComputed ==
  /\ invoked.op = "_chacha20_block"
  /\ invoked.ret = BlockVectors[1].block

-----------------------------------------------------------------------------
(* DeviceManager.add: the stored description of one device name, held in dev
   as a JSON object (empty when the name is not stored), and the call made,
   recorded in calls *)

K_token == << 116, 111, 107, 101, 110 >>
K_port == << 112, 111, 114, 116 >>
K_cloud == << 99, 108, 111, 117, 100 >>
K_added == << 97, 100, 100, 101, 100 >>
K_ip == << 105, 112 >>
K_api_token == << 97, 112, 105, 95, 116, 111, 107, 101, 110 >>
K_http_url == << 104, 116, 116, 112, 95, 117, 114, 108 >>
K_wss_url == << 119, 115, 115, 95, 117, 114, 108 >>
K_protocol == << 112, 114, 111, 116, 111, 99, 111, 108 >>
DEFAULT_PROTOCOL == << 104, 116, 116, 112 >>

\* A keyword argument that the call does not pass
NotPassed == [t |-> "absent", v |-> <<>>]

\* **kwargs of a call: the keyword arguments that were passed
Kwargs(a) ==
  JDict(SelectSeq(<< << K_port, a.port >>, << K_cloud, a.cloud >>,
                     << K_device_id, a.device_id >>, << K_protocol, a.protocol >> >>,
                  LAMBDA item : item[2].t # "absent"))

\* kwargs.get(key, default)
KwGet(kw, key, default) == IF DictHas(kw, key) THEN DictGet(kw, key) ELSE default

\* Lines 109-115: the description built from the call alone
Built(name, a, kw, now) ==
  JDict(<< << K_token, a.token >>,
           << K_port, KwGet(kw, K_port, JInt(DEFAULT_PORT)) >>,
           << K_cloud, KwGet(kw, K_cloud, JBool(FALSE)) >>,
           << K_device_id, KwGet(kw, K_device_id, JStr(name)) >>,
           << K_added, JInt(now) >> >>)

\* if not given and existing.get(key): device_data[key] = existing[key]
Preserved(d, existing, given, key) ==
  IF ~Truthy(given) /\ Truthy(DictGet(existing, key))
  THEN DictSet(d, key, DictGet(existing, key))
  ELSE d

\* Lines 118-134: the fields taken over from the stored description
Merged(d, existing, a, kw) ==
  IF Truthy(existing)
  THEN Preserved(
         Preserved(
           Preserved(
             Preserved(
               Preserved(
                 Preserved(
                   Preserved(d, existing, a.ip, K_ip),
                   existing, a.token, K_token),
                 existing, a.api_token, K_api_token),
               existing, a.http_url, K_http_url),
             existing, a.wss_url, K_wss_url),
           existing, DictGet(kw, K_protocol), K_protocol),
         existing, JNull, K_added)
  ELSE d

\* if given: device_data[key] = given
\* elif device_data["cloud"] and not existing.get(key): device_data[key] = default
GivenOrDefault(d, existing, given, key, default) ==
  IF Truthy(given) THEN DictSet(d, key, given)
  ELSE IF Truthy(DictGet(d, K_cloud)) /\ ~Truthy(DictGet(existing, key))
  THEN DictSet(d, key, default)
  ELSE d

\* Lines 137-152: the URLs and the protocol
WithCloudFields(d, existing, a, kw) ==
  GivenOrDefault(
    GivenOrDefault(
      GivenOrDefault(d, existing, a.http_url, K_http_url, JStr(DEFAULT_HTTP_URL)),
      existing, a.wss_url, K_wss_url, JStr(DEFAULT_WSS_URL)),
    existing, DictGet(kw, K_protocol), K_protocol, JStr(DEFAULT_PROTOCOL))

\* if given: device_data[key] = given
IfGiven(d, given, key) == IF Truthy(given) THEN DictSet(d, key, given) ELSE d

\* Lines 154-166: api_token, token of kwargs and ip
WithAddress(d, a, kw) ==
  IF Truthy(DictGet(d, K_cloud)) \/ Truthy(a.http_url) \/ Truthy(a.wss_url)
  THEN IfGiven(IfGiven(IfGiven(d, a.api_token, K_api_token),
                       DictGet(kw, K_token), K_token),
               a.ip, K_ip)
  ELSE IfGiven(d, a.ip, K_ip)

\* DeviceManager.add(name, ip, token, api_token, http_url, wss_url, **kwargs):
\* the description stored under name afterwards
add(existing, name, a, now) ==
  WithAddress(
    WithCloudFields(
      Merged(Built(name, a, Kwargs(a), now), existing, a, Kwargs(a)),
      existing, a, Kwargs(a)),
    a, Kwargs(a))

\* The name added
DeviceName == << 108, 97, 109, 112 >>

\* What is stored under the name before the call: nothing, a local device
\* and a cloud device, both added at time 5 with a port and a device_id of
\* their own
StoredEntries ==
  { JDict(<<>>),
    JDict(<< << K_token, JStr(Tokens[3]) >>, << K_port, JInt(8099) >>,
             << K_cloud, JBool(FALSE) >>, << K_device_id, JStr(<< 101, 115, 112, 45, 49 >>) >>,
             << K_added, JInt(5) >>, << K_ip, JStr(<< 49, 48, 46, 48, 46, 48, 46, 55 >>) >> >>),
    JDict(<< << K_token, JStr(Tokens[3]) >>, << K_port, JInt(8099) >>,
             << K_cloud, JBool(TRUE) >>, << K_device_id, JStr(<< 101, 115, 112, 45, 49 >>) >>,
             << K_added, JInt(5) >>, << K_api_token, JStr(<< 107, 101, 121, 45, 49 >>) >>,
             << K_http_url, JStr(<< 104, 116, 116, 112, 115, 58, 47, 47, 104, 46, 101, 120, 97, 109, 112, 108, 101 >>) >>,
             << K_wss_url, JStr(<< 119, 115, 115, 58, 47, 47, 119, 46, 101, 120, 97, 109, 112, 108, 101 >>) >>,
             << K_protocol, JStr(<< 119, 115, 115 >>) >> >>) }

\* The calls made: each argument is left out or given
AddCalls ==
  [ip : BOOLEAN, token : BOOLEAN, api_token : BOOLEAN, http_url : BOOLEAN,
   wss_url : BOOLEAN, port : BOOLEAN, cloud : BOOLEAN, device_id : BOOLEAN,
   protocol : BOOLEAN]

\* A positional argument: the new value, or None
Given(given, val) == IF given THEN val ELSE JNull

\* A keyword argument: the new value, or not passed
Passed(given, val) == IF given THEN val ELSE NotPassed

\* The arguments of a call
AddArgs(g) ==
  [ip |-> Given(g.ip, JStr(<< 49, 48, 46, 48, 46, 48, 46, 57 >>)),
   token |-> Given(g.token, JStr(Tokens[4])),
   api_token |-> Given(g.api_token, JStr(<< 107, 101, 121, 45, 50 >>)),
   http_url |-> Given(g.http_url, JStr(<< 104, 116, 116, 112, 115, 58, 47, 47, 110, 46, 101, 120, 97, 109, 112, 108, 101 >>)),
   wss_url |-> Given(g.wss_url, JStr(<< 119, 115, 115, 58, 47, 47, 110, 46, 101, 120, 97, 109, 112, 108, 101 >>)),
   port |-> Passed(g.port, JInt(1234)),
   cloud |-> Passed(g.cloud, JBool(TRUE)),
   device_id |-> Passed(g.device_id, JStr(<< 101, 115, 112, 45, 50 >>)),
   protocol |-> Passed(g.protocol, JStr(<< 104, 116, 116, 112 >>))]

\* A device manager with its stored description, before any call
InitStore ==
  /\ token = Tokens[3]
  /\ constructed = "no"
  /\ chacha_key = <<>>
  /\ hmac_key = <<>>
  /\ request_counter = 0
  /\ previous = NoCall
  /\ invoked = NoCall
  /\ transport = "none"
  /\ phase = "idle"
  /\ sending = 0
  /\ awaited = JNull
  /\ pulls = 0
  /\ sock_open = FALSE
  /\ returned = JNull
  /\ inflight = <<>>
  /\ replies = <<>>
  /\ queue = <<>>
  /\ pulled = <<>>
  /\ failed = "none"
  /\ ws_available = FALSE
  /\ api_token = FALSE
  /\ ws = 0
  /\ links = <<>>
  /\ written = <<>>
  /\ inbox = <<>>
  /\ consumed = <<>>
  /\ read = <<>>
  /\ sends = 0
  /\ dev \in StoredEntries
  /\ mode_override = ""
  /\ handler = NoHandler
  /\ calls = <<>>

\* dev_mgr.add(name, ...) at time.time() = 9: self.devices[name] = device_data
Add(g) ==
  /\ calls = <<>>
  /\ dev' = add(dev, DeviceName, AddArgs(g), 9)
  /\ calls' = << [given |-> g, existing |-> dev] >>
  /\ UNCHANGED << engineVars, transport, phase, sending, awaited, pulls, sock_open,
                  returned, inflight, replies, queue, pulled, failed, ws_available,
                  api_token, ws, links, written, inbox, consumed, read, sends,
                  mode_override, handler >>

NextStore == \E g \in AddCalls : Add(g)

SpecStore == InitStore /\ [][NextStore]_vars

\* The call leaves the field unset: None, or no such keyword argument
NotSet(g, key) ==
  CASE key = K_ip -> ~g.ip
    [] key = K_token -> ~g.token
    [] key = K_api_token -> ~g.api_token
    [] key = K_http_url -> ~g.http_url
    [] key = K_wss_url -> ~g.wss_url
    [] key = K_port -> ~g.port
    [] key = K_device_id -> ~g.device_id
    [] key = K_protocol -> ~g.protocol

\* The field is stored after the call with the value it had before
Kept(c, key) ==
  DictHas(c.existing, key) =>
    /\ DictHas(dev, key)
    /\ SameJson(DictGet(dev, key), DictGet(c.existing, key))

\* The name was stored and add was called for it
ReAdded == calls # <<>> /\ Truthy(calls[1].existing)

\* C34: after add on a stored name, every stored field among ip, token,
\* port, device_id, api_token, http_url, wss_url and protocol that the call
\* does not set keeps its value, and so does the added timestamp
C34_AddPreserves ==
  ReAdded =>
    /\ \A key \in {K_ip, K_token, K_port, K_device_id, K_api_token, K_http_url,
                   K_wss_url, K_protocol} :
         NotSet(calls[1].given, key) => Kept(calls[1], key)
    /\ Kept(calls[1], K_added)

\* What the code does keep: ip, token, api_token, http_url, wss_url,
\* protocol and added
AddPreservesRead ==
  ReAdded =>
    /\ \A key \in {K_ip, K_token, K_api_token, K_http_url, K_wss_url, K_protocol} :
         NotSet(calls[1].given, key) => Kept(calls[1], key)
    /\ Kept(calls[1], K_added)

\* What it does not: without port and device_id in the call, the port is
\* DEFAULT_PORT and the device_id is the name
AddRebuilds ==
  ReAdded =>
    /\ NotSet(calls[1].given, K_port) => SameJson(DictGet(dev, K_port), JInt(DEFAULT_PORT))
    /\ NotSet(calls[1].given, K_device_id) => SameJson(DictGet(dev, K_device_id), JStr(DeviceName))

-----------------------------------------------------------------------------
(* Termination of send.  One send on each transport, where the server of the
   stream may go on sending messages without end: of the messages read in
   the loop only the first is recorded.  The blocking
   calls return or time out (the client's steps are taken again and again
   while a call lasts), and the clock read at line 398 passes
   DEVICE_RESPONSE_TIMEOUT (weak fairness of the deadline). *)

\* The most calls of the engine counted while the server keeps sending
MaxCounted == 3

\* The server sends one more message to the waiting client
ServerKeepsSending(m) ==
  /\ transport = "wss" /\ phase = "waiting"
  /\ inbox = <<>>
  /\ inbox' = << m >>
  /\ UNCHANGED << engineVars, transport, phase, sending, awaited, pulls, sock_open,
                  returned, inflight, replies, queue, pulled, failed, ws_available,
                  api_token, selectVars, ws, links, written, consumed, read, sends >>

\* One turn of the loop of _wait_wss_response on such a message; read keeps
\* the first message of the loop only
WssReceiveMore ==
  /\ phase = "waiting"
  /\ inbox # <<>>
  /\ WssTurned(WaitReceived(chacha_key, hmac_key, Head(inbox).text, awaited))
  /\ read' = IF read = <<>> THEN << Seen(Head(inbox)) >> ELSE read
  /\ UNCHANGED failed
  /\ UNCHANGED << observedVars, transport, sending, awaited, pulls, inflight, replies,
                  queue, pulled, ws_available, api_token, selectVars, written, consumed, sends >>

InitLive == InitSession \/ InitStreamSession

\* The steps of the client inside send_command, each a blocking call that
\* returns or times out followed by the statements up to the next one
ClientStep ==
  \/ \E how \in {"ok", "timeout", "error"} : TcpSend(how)
  \/ \E m \in 0..(Len(ReplyKinds) + 3) : TcpReceive(m)
  \/ \E how \in {"ok", "error"} : HttpPull(how)
  \/ \E how \in {"ok", "error"} : WssOpen(how)
  \/ \E how \in {"ok", "error"} : WssAuth(how)
  \/ \E how \in {"message", "timeout"} : WssWelcome(how)
  \/ \E how \in {"ok", "error"} : WssTransmit(how)
  \/ \E how \in {"timeout", "deadline", "error"} : WssReceive(how)
  \/ WssReceiveMore
  \/ \E how \in {"ok", "error"} : WssFallback(how)

\* What the other side does: the device's side hands envelopes to the relay,
\* the server sends messages on the stream
PeerStep ==
  \/ \E m \in WhileFallback : RelayQueues(m)
  \/ \E k \in WhileConnecting : phase = "welcome" /\ ServerSends(ServerMessages[k])
  \/ \E k \in WhileWaiting : ServerKeepsSending(ServerMessages[k])
  \/ \E k \in 1..Len(DeviceMessages) :
        request_counter < MaxCounted /\ ServerKeepsSending(DeviceMessages[k])

NextLive ==
  \/ Construct
  \/ \E c \in StreamCommands, how \in {"ok", "timeout", "refused", "error"} :
        TcpConnect(c, 1, how)
  \/ \E c \in StreamCommands, how \in {"ok", "error"} : HttpPush(c, 1, how)
  \/ WssBegin(1)
  \/ ClientStep
  \/ PeerStep

\* send_command was called and has not returned
InCall == phase \notin {"idle", "done"}

\* Weak fairness of an action whose enabling condition is the state
\* predicate written next to it: WF_vars(A) with ENABLED <<A>>_vars spelled
\* out.
\*
\* Each blocking call returns or times out: a client inside send_command
\* takes a step again and again (ClientCanStep below holds in every state of
\* a call)
CallsReturn == []<>(~InCall) \/ []<><<ClientStep>>_vars

\* The loop of _wait_wss_response has made a turn and is at its test
AtDeadlineTest == phase = "waiting" /\ read # <<>>

\* The clock passes the deadline: the test of line 398 fails in the end
DeadlinePasses == []<>(~AtDeadlineTest) \/ []<><<WssReceive("deadline")>>_vars

FairLive == CallsReturn /\ DeadlinePasses

SpecLive == InitLive /\ [][NextLive]_vars /\ FairLive

\* The guards of the client's steps
ClientCanStep ==
  \/ transport = "tcp" /\ phase \in {"connected", "sent"}
  \/ transport \in {"http", "wss"} /\ phase = "pushed" /\ attempts_left(pulls)
  \/ transport = "wss"
       /\ phase \in {"connecting", "auth", "welcome", "ready", "waiting", "fallback"}

\* send_command has returned a mapping
ReturnedMapping == phase = "done" /\ IsDict(returned)

KeptSending ==
  /\ transport = "wss" /\ phase = "waiting"
  /\ read # <<>>
  /\ inbox # <<>>

-----------------------------------------------------------------------------
(* The device's error response on the three transports, checked under Spec
   and SpecStream *)

\* send_command returned the decoded error response of the device to the
\* command that was sent
ErrorReplyReturned ==
  /\ phase = "done"
  /\ SameJson(DictGet(returned, K_status), JStr(S_error))
  /\ SameJson(DictGet(returned, K_request_id), JStr(sending.request_id))
  /\ SameJson(DictGet(returned, T_result), JStr(T_pong))

\* The first envelope the client received for its command is the device's
\* validly signed error response with the request id of the command
ErrorReplyFirst ==
  /\ pulled # <<>>
  /\ ReplyKinds[pulled[1]] = "error response"

\* C36: when the device replies with a validly signed envelope whose decoded
\* request_id is that of the command, send_command returns the decoded
\* response whatever its inner status: an error response is returned over the
\* relay and the stream as it is over TCP, and is not skipped.
C36_ErrorReplyReturned ==
  /\ ErrorReplyFirst => ErrorReplyReturned
  /\ \A k \in 1..Len(ReadNow) :
       (ReadNow[k].kind = "error response" /\ ReadNow[k].to = sending.request_id) =>
         /\ ErrorReplyReturned
         /\ k = Len(ReadNow)

\* Over TCP the error response is the result
ErrorReplyDirect == (transport = "tcp" /\ ErrorReplyFirst) => ErrorReplyReturned

\* Over the relay and over the stream the error response is never the
\* result: the call goes on and ends with another result
ErrorReplySkipped ==
  (transport \in {"http", "wss"} /\ phase = "done") =>
    ~SameJson(DictGet(returned, K_request_id), JStr(sending.request_id))
      \/ SameJson(DictGet(returned, K_status), JStr(S_success))

\* The relay handed the error response over with the first pull and the
\* second pull ended the call with the timeout result
ErrorReplyTimedOut ==
  /\ transport = "http" /\ phase = "done" /\ failed = "none"
  /\ ErrorReplyFirst
  /\ pulls = 2
  /\ returned = TimeoutResult

\* The stream client read the error response and went on waiting
ErrorReplyRead ==
  /\ transport = "wss" /\ phase = "waiting"
  /\ \E k \in 1..Len(ReadNow) :
       ReadNow[k].kind = "error response" /\ ReadNow[k].to = sending.request_id

-----------------------------------------------------------------------------
(* The request id that the relay and the stream filter with, checked under
   Spec and SpecStream *)

\* The client waits for responses to the command it sent
WaitsForResponse ==
  /\ transport \in {"http", "wss"}
  /\ phase \in {"pushed", "waiting"}

\* C37: while the relay or the stream client waits for the response, the
\* request id it filters with is present and is the request_id inside the
\* command packet it sent, also when the inner envelope is longer than 500
\* bytes; no call accepts a success response to another request.
C37_RequestIdAwaited ==
  /\ WaitsForResponse => SameJson(awaited, JStr(sending.request_id))
  /\ (transport \in {"http", "wss"} /\ phase = "done"
        /\ SameJson(DictGet(returned, K_status), JStr(S_success))
        /\ DictHas(returned, K_request_id)) =>
       SameJson(DictGet(returned, K_request_id), JStr(sending.request_id))

\* With an inner envelope of at most 500 bytes the request id is read back
\* and is the one sent
RequestIdAwaitedShort ==
  (WaitsForResponse /\ InnerBytes(sending) <= MaxPlaintext) =>
    SameJson(awaited, JStr(sending.request_id))

\* With an inner envelope of more than 500 bytes no request id is read back
RequestIdLost ==
  (WaitsForResponse /\ InnerBytes(sending) > MaxPlaintext) => awaited = JNull

\* The relay client could read no request id back and returned the response
\* to another request
FellBackToAny ==
  /\ transport = "http" /\ phase = "done"
  /\ awaited = JNull
  /\ InnerBytes(sending) = MaxPlaintext + 1
  /\ SameJson(DictGet(returned, K_status), JStr(S_success))
  /\ SameJson(DictGet(returned, K_request_id), JStr(OtherRequestId(sending.request_id)))

-----------------------------------------------------------------------------
(* Where a success result comes from, checked under Spec and SpecStream *)

\* The text of a message that the stream client read
StreamText(r) ==
  CASE r.kind = "response" /\ r.to = sending.request_id -> replies[1]
    [] r.kind = "response" /\ r.to # sending.request_id -> replies[2]
    [] r.kind = "error response" -> replies[3]
    [] r.kind = "forged" -> WithForged(replies)[Len(replies) + 1]
    [] OTHER -> ServerTexts[CHOOSE k \in 1..Len(ServerTexts) : ServerKinds[k] = r.kind]

\* The messages of the stream that are JSON objects
StreamObjects ==
  SelectSeq([k \in 1..Len(ReadNow) |-> loads(StreamText(ReadNow[k]))],
            LAMBDA parsed : parsed.ok /\ parsed.val.t = "dict")

\* The packet texts that this send's handler had to hand: the line that TCP
\* received, full_packet of each message the pulls returned and of each
\* message the stream client read
HandedOver ==
  IF transport = "tcp"
  THEN [k \in 1..Len(pulled) |-> strip(replies[pulled[k]] \o << 10 >>)]
  ELSE [k \in 1..Len(pulled) |-> dumps(FullPacket(DeviceId, Messages(pulled)[k]))]
       \o [k \in 1..Len(StreamObjects) |-> dumps(FullPacket(DeviceId, StreamObjects[k].val))]

\* The result is what process_incoming_packet makes of the outer packet
\* parsed from packet_json, whose signature is the HMAC of its payload under
\* the session's key
FromVerifiedOuter(packet_json, outer) ==
  /\ outer.ok /\ outer.val.t = "dict"
  /\ DictGet(outer.val, K_payload).t = "str"
  /\ DictGet(outer.val, K_signature).t = "str"
  /\ lower(DictGet(outer.val, K_signature).v)
       = calculate_hmac(hmac_key, DictGet(outer.val, K_payload).v)
  /\ SameJson(process_incoming_packet(chacha_key, hmac_key, packet_json).result,
              returned)

FromVerified(packet_json) == FromVerifiedOuter(packet_json, loads(packet_json))

ReturnedSuccess ==
  /\ phase = "done"
  /\ SameJson(DictGet(returned, K_status), JStr(S_success))

\* C38: every result with status success that send_command returns, over
\* TCP, the relay or the stream, is the result of process_incoming_packet for
\* an envelope the handler received whose signature verifies under the
\* session's key; no unsigned message of the server and no envelope with a
\* wrong signature becomes a success result.
C38_SuccessVerified ==
  ReturnedSuccess => \E k \in 1..Len(HandedOver) : FromVerified(HandedOver[k])

\* The relay handed over the response with a wrong signature and then the
\* response, and the send returned the response
C38_Witness ==
  /\ transport = "http" /\ ReturnedSuccess
  /\ Len(pulled) = 2
  /\ ReplyKinds[pulled[1]] = "forged"
  /\ ReplyKinds[pulled[2]] = "response"
  /\ FromVerified(HandedOver[2])
  /\ ~FromVerified(HandedOver[1])

\* The stream client read the acknowledgement of the delivery and the
\* response with a wrong signature, and went on waiting
ForgedSkipped ==
  /\ transport = "wss" /\ phase = "waiting"
  /\ Len(ReadNow) = 2
  /\ ReadNow[1].kind = "delivered"
  /\ ReadNow[2].kind = "forged"

\* TCP received the response with a wrong signature and returned the error
ForgedRefused ==
  /\ transport = "tcp" /\ phase = "done"
  /\ pulled # <<>> /\ ReplyKinds[pulled[1]] = "forged"
  /\ returned = ErrorResult(INVALID_SIGNATURE)

-----------------------------------------------------------------------------
(* WSSClient, the deprecated stream client of wss_client.py.  transport is
   "legacy"; ws, links, written, inbox, consumed, read and sends are used as
   for CloudClient; _connected is true exactly when ws is set whenever a
   method has returned (connect sets both or neither, disconnect clears
   both).  phase is "ack" while send_command waits for the server's
   acknowledgement and "response" while it waits for the device. *)

E_WSS_CONNECTION_FAILED == << 87, 83, 83, 95, 67, 79, 78, 78, 69, 67, 84, 73, 79, 78, 95, 70, 65, 73, 76, 69, 68 >>
E_WSS_ERROR == << 87, 83, 83, 95, 69, 82, 82, 79, 82, 58, 32 >>
E_UNKNOWN == << 85, 78, 75, 78, 79, 87, 78 >>
E_exception == << 101, 120, 99, 101, 112, 116, 105, 111, 110 >>
M_command_queued == << 67, 111, 109, 109, 97, 110, 100, 32, 113, 117, 101, 117, 101, 100, 44, 32, 100, 101, 118, 105, 99, 101, 32, 111, 102, 102, 108, 105, 110, 101 >>
M_did_not_respond == << 68, 101, 118, 105, 99, 101, 32, 100, 105, 100, 32, 110, 111, 116, 32, 114, 101, 115, 112, 111, 110, 100, 32, 119, 105, 116, 104, 105, 110, 32, 116, 105, 109, 101, 111, 117, 116 >>

\* The variables that no method of WSSClient touches
legacyKept ==
  << observedVars, transport, awaited, pulls, inflight, queue, pulled, ws_available,
     api_token, selectVars >>

\* Lines 216-220: the result of a wait for the device that timed out
DeliveredTimeout ==
  JDict(<< << K_status, JStr(S_timeout) >>,
           << K_message, JStr(M_did_not_respond) >>,
           << K_delivered, JBool(TRUE) >> >>)

\* Lines 198-203: the result for an acknowledgement with queued set
LegacyQueued(ack) ==
  JDict(<< << K_status, JStr(S_queued) >>,
           << K_message, JStr(M_command_queued) >>,
           << K_device_id, DictGet(ack, K_device_id) >> >>)

\* Lines 194-195: the result for an acknowledgement with status error
LegacyRefused(ack) ==
  JDict(<< << K_status, JStr(S_error) >>,
           << K_error, IF DictHas(ack, K_error) THEN DictGet(ack, K_error)
                       ELSE JStr(E_UNKNOWN) >> >>)

\* Lines 190-225 for the text that the first recv returned: the call ends
\* with a result, or goes on to wait for the device (json.loads raises on
\* text that is no JSON and ack.get on JSON that is no object; line 232
\* turns the exception into a result)
AckParsed(parsed) ==
  IF ~parsed.ok \/ parsed.val.t # "dict" THEN Turn(TRUE, ErrorResult(E_exception), FALSE, FALSE)
  ELSE IF GetIs(parsed.val, K_status, S_error)
  THEN Turn(TRUE, LegacyRefused(parsed.val), FALSE, FALSE)
  ELSE IF Truthy(DictGet(parsed.val, K_queued))
  THEN Turn(TRUE, LegacyQueued(parsed.val), FALSE, FALSE)
  ELSE IF Truthy(DictGet(parsed.val, K_delivered)) THEN Skip
  ELSE Turn(TRUE, parsed.val, FALSE, FALSE)

AckReceived(ack_raw) == AckParsed(loads(ack_raw))

\* Lines 208-212 for the text that the second recv returned and what
\* process_incoming_packet makes of it: a message with a payload is decoded,
\* any other JSON object is returned as it is
ResponseParsed(parsed, done) ==
  IF ~parsed.ok \/ parsed.val.t \notin {"dict", "list", "str"}
  THEN Turn(TRUE, ErrorResult(E_exception), FALSE, FALSE)
  ELSE IF parsed.val.t = "dict" /\ DictHas(parsed.val, K_payload)
  THEN (IF done.raised THEN Turn(TRUE, ErrorResult(E_exception), FALSE, FALSE)
        ELSE Turn(TRUE, done.result, FALSE, done.counted))
  ELSE Turn(TRUE, parsed.val, FALSE, FALSE)

ResponseReceived(ck, hk, response_raw) ==
  ResponseParsed(loads(response_raw), process_incoming_packet(ck, hk, response_raw))

\* disconnect, lines 162-170
disconnect ==
  /\ links' = CloseLink
  /\ ws' = 0
  /\ inbox' = <<>>

\* send_command up to the connect, lines 178-182, where at most so many
\* sends are made
WSSBegin(most) ==
  /\ constructed = "yes" /\ transport = "legacy" /\ phase \in {"idle", "done"}
  /\ sends < most
  /\ sends' = sends + 1
  /\ \E c \in StreamCommands : sending' = Sent(c, StreamRequest(sends + 1))
  /\ phase' = IF ws # 0 THEN "ready" ELSE "connecting"
  /\ returned' = JNull
  /\ failed' = "none"
  /\ UNCHANGED << legacyKept, request_counter, sock_open, replies, ws, links, written,
                  inbox, consumed, read >>

\* connect up to the welcome read, lines 98-129: create_connection and the
\* auth message; when one of them raises, lines 156-160 and 181-182
WSSConnect(how) ==
  /\ transport = "legacy" /\ phase = "connecting"
  /\ IF how = "ok"
     THEN /\ links' = Append(links, "open")
          /\ ws' = Len(links) + 1
          /\ written' = IF api_token
                        THEN Append(written, [link |-> Len(links) + 1, kind |-> "auth",
                                              send |-> sends])
                        ELSE written
          /\ phase' = "welcome"
          /\ UNCHANGED << returned, sock_open, failed >>
     ELSE /\ ws' = 0
          /\ Return(ErrorResult(E_WSS_CONNECTION_FAILED))
          /\ failed' = "open"
          /\ UNCHANGED << links, written >>
  /\ inbox' = <<>>
  /\ UNCHANGED << legacyKept, request_counter, sending, replies, consumed, read, sends >>

\* Lines 139-145 and 150-154 for what the welcome read made of its message
WSSWelcomed(verdict) ==
  IF verdict = "refuse"
  THEN /\ disconnect
       /\ Return(ErrorResult(E_WSS_CONNECTION_FAILED))
       /\ failed' = "welcome"
  ELSE /\ phase' = "ready"
       /\ inbox' = IF inbox = <<>> THEN inbox ELSE Tail(inbox)
       /\ UNCHANGED << ws, links, failed, returned, sock_open >>

\* The welcome read of connect, lines 132-154: a message is there, or recv
\* raises after 3 seconds (line 148 swallows every exception)
WSSWelcome(how) ==
  /\ transport = "legacy" /\ phase = "welcome"
  /\ IF how = "message"
     THEN /\ inbox # <<>>
          /\ WSSWelcomed(WelcomeReceived(Head(inbox).text))
          /\ consumed' = Append(consumed, Seen(Head(inbox)))
     ELSE /\ inbox = <<>>
          /\ WSSWelcomed("go on")
          /\ UNCHANGED consumed
  /\ UNCHANGED << legacyKept, request_counter, sending, replies, written, read, sends >>

\* Lines 185-187: the packet is created and sent; a WebSocketException of
\* send ends the call at lines 227-230
WSSTransmit(how) ==
  /\ transport = "legacy" /\ phase = "ready"
  /\ request_counter' = request_counter + 1
  /\ IF how = "ok"
     THEN /\ written' = Append(written, Wrote("command"))
          /\ replies' = DeviceResponses(chacha_key, hmac_key, sending)
          /\ phase' = "ack"
          /\ UNCHANGED << returned, sock_open, ws, links, inbox, failed >>
     ELSE /\ disconnect
          /\ Return(ErrorResult(E_WSS_ERROR))
          /\ failed' = "send"
          /\ UNCHANGED << written, replies >>
  /\ UNCHANGED << legacyKept, sending, consumed, read, sends >>

\* What send_command does with a turn of its two reads
WSSTurned(turn, waits) ==
  /\ request_counter' = IF turn.counted THEN request_counter + 1 ELSE request_counter
  /\ IF turn.ends THEN Return(turn.result)
     ELSE /\ phase' = waits
          /\ UNCHANGED << returned, sock_open >>

\* The wait for the server's acknowledgement, lines 190-225: a message is
\* there, or recv raises a WebSocketException (the timeout of 10 seconds, a
\* closed link) and lines 227-230 disconnect
WSSAck(how) ==
  /\ transport = "legacy" /\ phase = "ack"
  /\ IF how = "message"
     THEN /\ inbox # <<>>
          /\ WSSTurned(AckReceived(Head(inbox).text), "response")
          /\ read' = Append(read, Seen(Head(inbox)))
          /\ inbox' = Tail(inbox)
          /\ UNCHANGED << ws, links, failed >>
     ELSE /\ how = "closed" \/ inbox = <<>>
          /\ disconnect
          /\ Return(ErrorResult(E_WSS_ERROR))
          /\ failed' = IF how = "closed" THEN "recv" ELSE "recv timeout"
          /\ UNCHANGED << request_counter, read >>
  /\ UNCHANGED << legacyKept, sending, replies, written, consumed, sends >>

\* The wait for the device's response, lines 206-222: a message is there;
\* or recv times out and the call returns the timeout result, the link
\* staying as it is; or the link was closed and lines 227-230 disconnect
WSSResponse(how) ==
  /\ transport = "legacy" /\ phase = "response"
  /\ CASE how = "message" ->
            /\ inbox # <<>>
            /\ WSSTurned(ResponseReceived(chacha_key, hmac_key, Head(inbox).text), "done")
            /\ read' = Append(read, Seen(Head(inbox)))
            /\ inbox' = Tail(inbox)
            /\ UNCHANGED << ws, links, failed >>
       [] how = "timeout" ->
            /\ inbox = <<>>
            /\ Return(DeliveredTimeout)
            /\ failed' = "recv timeout"
            /\ UNCHANGED << request_counter, ws, links, inbox, read >>
       [] OTHER ->
            /\ disconnect
            /\ Return(ErrorResult(E_WSS_ERROR))
            /\ failed' = "recv"
            /\ UNCHANGED << request_counter, read >>
  /\ UNCHANGED << legacyKept, sending, replies, written, consumed, sends >>

\* disconnect() called between two sends
WSSDisconnect ==
  /\ transport = "legacy" /\ phase = "done" /\ ws # 0
  /\ disconnect
  /\ UNCHANGED << legacyKept, request_counter, phase, sending, sock_open, returned,
                  replies, failed, written, consumed, read, sends >>

\* The command of the running or the last send is on the open link
CommandOnLink ==
  /\ ws # 0
  /\ \E k \in 1..Len(written) :
       written[k] = [link |-> ws, kind |-> "command", send |-> sends]

\* The server has sent a message of this kind for the last command
ServerSent(kind) ==
  \/ \E k \in 1..Len(inbox) : inbox[k].kind = kind /\ inbox[k].to = sending.request_id
  \/ \E k \in 1..Len(read) : read[k].kind = kind /\ read[k].to = sending.request_id

\* What the server sends on the link: its welcome or its refusal while the
\* client connects;
\* for the last command one acknowledgement (delivered or queued) and, after
\* it acknowledged the delivery, the device's response, whenever that comes
LegacyMessages ==
  IF phase = "welcome"
  THEN {Message("welcome", <<>>, ServerTexts[1]), Message("refused", <<>>, ServerTexts[3])}
  ELSE IF ~CommandOnLink THEN {}
  ELSE IF ~ServerSent("delivered") /\ ~ServerSent("queued")
  THEN {Message("delivered", sending.request_id, ServerTexts[4]),
        Message("queued", sending.request_id, ServerTexts[5])}
  ELSE IF ServerSent("delivered") /\ ~ServerSent("response")
  THEN {Message("response", sending.request_id, replies[1])}
  ELSE {}

WSSServerSends(m) ==
  /\ transport = "legacy" /\ ws # 0
  /\ IF phase = "welcome" THEN inbox = <<>> ELSE TRUE
  /\ inbox' = Append(inbox, m)
  /\ UNCHANGED << engineVars, transport, phase, sending, awaited, pulls, sock_open,
                  returned, inflight, replies, queue, pulled, failed, ws_available,
                  api_token, selectVars, ws, links, written, consumed, read, sends >>

\* The state after WSSClient(token, device_id, api_token): the constructor
\* raises where the websocket library is missing
InitLegacy ==
  /\ token = Tokens[3]
  /\ constructed = "no"
  /\ chacha_key = <<>>
  /\ hmac_key = <<>>
  /\ request_counter = 0
  /\ previous = NoCall
  /\ invoked = NoCall
  /\ transport = "legacy"
  /\ phase = "idle"
  /\ sending = 0
  /\ awaited = JNull
  /\ pulls = 0
  /\ sock_open = FALSE
  /\ returned = JNull
  /\ inflight = <<>>
  /\ replies = <<>>
  /\ queue = <<>>
  /\ pulled = <<>>
  /\ failed = "none"
  /\ ws_available = TRUE
  /\ api_token \in BOOLEAN
  /\ InitCaller
  /\ ws = 0
  /\ links = <<>>
  /\ written = <<>>
  /\ inbox = <<>>
  /\ consumed = <<>>
  /\ read = <<>>
  /\ sends = 0

NextLegacy ==
  \/ Construct
  \/ WSSBegin(MaxSends)
  \/ \E how \in {"ok", "error"} : WSSConnect(how)
  \/ \E how \in {"message", "timeout"} : WSSWelcome(how)
  \/ \E how \in {"ok", "error"} : WSSTransmit(how)
  \/ \E how \in {"message", "timeout", "closed"} : WSSAck(how)
  \/ \E how \in {"message", "timeout", "closed"} : WSSResponse(how)
  \/ WSSDisconnect
  \/ \E m \in LegacyMessages : WSSServerSends(m)

SpecLegacy == InitLegacy /\ [][NextLegacy]_vars

\* C39: over any sequence of send_command calls of WSSClient on one
\* connection, no message that the server sent in reply to an earlier command
\* is taken as the acknowledgement or the response of a later command: every
\* message a send reads answers the command of that send (or is the
\* welcome), also after a send ended with status timeout and delivered true
\* and the link stayed open.
C39_NoStaleResult ==
  transport = "legacy" =>
    \A k \in 1..Len(ReadNow) :
      ReadNow[k].to = <<>> \/ ReadNow[k].to = sending.request_id

\* The first send ended with the timeout result after the acknowledgement of
\* the delivery, the link stayed open, and the second send returned the
\* envelope of the device's response to the first command as its result
StaleEnvelopeReturned ==
  /\ transport = "legacy" /\ phase = "done" /\ sends = 2
  /\ Len(links) = 1 /\ ws = 1
  /\ Len(read) = 2
  /\ read[1] = [kind |-> "delivered", to |-> RequestIds[1], send |-> 1]
  /\ read[2] = [kind |-> "response", to |-> RequestIds[1], send |-> 2]
  /\ sending.request_id = RequestIds[2]
  /\ DictHas(returned, K_payload) /\ DictHas(returned, K_signature)
  /\ ~DictHas(returned, K_status)

\* The second send took the late response to the first command as its
\* acknowledgement although its own acknowledgement was on the way
StaleBeforeAck ==
  /\ transport = "legacy" /\ phase = "done" /\ sends = 2
  /\ read # <<>>
  /\ read[Len(read)] = [kind |-> "response", to |-> RequestIds[1], send |-> 2]
  /\ inbox # <<>> /\ inbox[1].kind = "delivered" /\ inbox[1].to = RequestIds[2]

\* On one link, a send whose acknowledgement and response came in time
\* returned the decoded response
LegacyAnswered ==
  /\ transport = "legacy" /\ phase = "done"
  /\ Len(ReadNow) = 2
  /\ ReadNow[1].kind = "delivered" /\ ReadNow[2].kind = "response"
  /\ ReturnedPayload

=============================================================================
